---- MODULE Spec2Model ----
(***************************************************************************)
(* A model of the streaming ZIP writer (class ZipWriter): the coordinator  *)
(* that serialises concurrent addEntry calls and finalize onto one output  *)
(* stream through a FIFO mutex, the option validation, the entry pipeline  *)
(* and the central-directory writer.                                       *)
(*                                                                         *)
(* Byte strings are modelled by their lengths, the output by the sequence  *)
(* of records handed to the output TransformStream. JavaScript strings are *)
(* modelled by the number of code points of each UTF-8 width they hold.    *)
(***************************************************************************)
EXTENDS Integers, Sequences, FiniteSets, TLC

VARIABLES
  finalized,   \* ZipWriter.#finalized
  entries,     \* ZipWriter.#entries
  offset,      \* ZipWriter.#offset
  out,         \* the chunks that passed the #zipStream transform, in order
  cd,          \* the records whose central-directory header was written
  wstate,      \* state of #zipStream.writable: "writable", "errored", "closed"
  werr,        \* the stored error of #zipStream once errored
  wlock,       \* the holder of the writable's writer lock, or NoOwner
  mutexQ,      \* the FIFO of #mutex: the head holds the lock
  pc,          \* position of every call: entry calls 1..MaxEntries, finalize FIN
  opt,         \* the options of each accepted addEntry call
  src,         \* state of each entry's readable: "none", "open", "ended", "errored", "cancelled"
  loc,         \* the local variables of each addEntry callback
  fin,         \* the local variables of the finalize callback
  result,      \* the promise returned by each call
  nextId,      \* number of accepted addEntry calls + 1
  lastCall,    \* outcome of the synchronous part of the last call of each method
  probe        \* a function of the program applied on its own: its name, arguments, result

vars == <<finalized, entries, offset, out, cd, wstate, werr, wlock, mutexQ, pc,
          opt, src, loc, fin, result, nextId, lastCall, probe>>

(***************************************************************************)
(* Bounds of the model.                                                    *)
(***************************************************************************)
MaxEntries == 2
MaxPayload == 2
MaxOverride == 2

(***************************************************************************)
(* Program constants.                                                      *)
(***************************************************************************)
LOCAL_FILE_HEADER_SIZE == 30
CENTRAL_DIRECTORY_HEADER_SIZE == 46
DATA_DESCRIPTOR_SIZE == 16
DATA_DESCRIPTOR_SIZE_ZIP64 == 24
EOCD_SIZE == 22
EOCD64_SIZE == 56
EOCD64_LOCATOR_SIZE == 20
ZIP64_EXTRA_SIZE == 28
VERSION_NEEDED_STANDARD == 20
VERSION_NEEDED_ZIP64 == 45
MAX_2_BYTE == 65535
DOS_EPOCH_YEAR == 1980

\* The calls: addEntry calls are numbered in call order, FIN is finalize.
FIN == MaxEntries + 1
NoOwner == MaxEntries + 2
EntryIds == 1..MaxEntries
Procs == EntryIds \cup {FIN}


(***************************************************************************)
(* Byte counts. The program keeps them as JavaScript bigints (internally)  *)
(* and as numbers (in the public records of entries that are not ZIP64).   *)
(* A count v is the record [t, hi, lo] with v = hi * 2^16 + lo, so that    *)
(* counts beyond 2^32 stay exact; t tells a bigint from a number, which    *)
(* the program's strict comparisons (===, !==) tell apart too.             *)
(***************************************************************************)
LIMB == 256 * 256

\* BigInt(n) for a non-negative number n that fits a machine word of the model.
BigInt(n) == [t |-> "bigint", hi |-> n \div LIMB, lo |-> n % LIMB]

\* BigInt(x) for a byte count x that is a number or already a bigint.
ToBigInt(x) == [t |-> "bigint", hi |-> x.hi, lo |-> x.lo]

\* Number(x) for a bigint below 2^53, where the conversion is exact.
ToNumber(x) == [t |-> "number", hi |-> x.hi, lo |-> x.lo]

\* a + b on bigints
BigAdd(a, b) ==
  LET lo == a.lo + b.lo
  IN  [t |-> "bigint", hi |-> a.hi + b.hi + (lo \div LIMB), lo |-> lo % LIMB]

\* a - b on bigints, for a >= b
BigSub(a, b) ==
  LET lo == a.lo - b.lo
  IN  IF lo >= 0 THEN [t |-> "bigint", hi |-> a.hi - b.hi, lo |-> lo]
      ELSE [t |-> "bigint", hi |-> a.hi - b.hi - 1, lo |-> lo + LIMB]

\* a >= b, whatever the two are (bigint or number)
Geq(a, b) == a.hi > b.hi \/ (a.hi = b.hi /\ a.lo >= b.lo)

\* a === b: same type and same value
StrictEq(a, b) == a.t = b.t /\ a.hi = b.hi /\ a.lo = b.lo

\* ZIP64_LIMIT = BigInt(0xffffffff)
ZIP64_LIMIT == [t |-> "bigint", hi |-> 65535, lo |-> 65535]

(***************************************************************************)
(* JavaScript strings and TextEncoder.                                     *)
(***************************************************************************)
\* A string holding b1 code points of one UTF-8 byte, b2 of two, b3 of three
\* and b4 of four (the last are surrogate pairs: two UTF-16 units each).
Str(b1, b2, b3, b4) == [def |-> TRUE, b1 |-> b1, b2 |-> b2, b3 |-> b3, b4 |-> b4]
UndefinedStr == [def |-> FALSE, b1 |-> 0, b2 |-> 0, b3 |-> 0, b4 |-> 0]
EmptyStr == Str(0, 0, 0, 0)

\* String.prototype.length: the number of UTF-16 code units.
StrLength(s) == s.b1 + s.b2 + s.b3 + 2 * s.b4

\* textEncoder.encode(s).length: the number of UTF-8 bytes.
TextEncode(s) == s.b1 + 2 * s.b2 + 3 * s.b3 + 4 * s.b4

\* `s ? textEncoder.encode(s) : new Uint8Array()`: undefined and "" are falsy.
EncodeOptional(s) == IF s.def /\ StrLength(s) > 0 THEN TextEncode(s) ELSE 0

(***************************************************************************)
(* Numbers given as mode, and dates.                                       *)
(***************************************************************************)
UndefinedMode == [t |-> "undefined", v |-> 0]
IntMode(n) == [t |-> "int", v |-> n]
FracMode == [t |-> "fraction", v |-> 0]   \* a number such as 0.5
NaNMode == [t |-> "NaN", v |-> 0]

UndefinedDate == [def |-> FALSE, y |-> 0, m |-> 0, d |-> 0]
Date(y, m, d) == [def |-> TRUE, y |-> y, m |-> m, d |-> d]
\* The value of `new Date()`.
CurrentDate == Date(2026, 11, 3)

\* getDosDate, as stored by setUint16: the shifts have disjoint bits, so the
\* bitwise or is a sum, and the 16-bit store keeps the value modulo 2^16.
GetDosDate(date) ==
  (((date.y - DOS_EPOCH_YEAR) * 512) + (date.m * 32) + date.d) % (2 ^ 16)

\* `options.date || new Date()`
DateOrNow(date) == IF date.def THEN date ELSE CurrentDate

(***************************************************************************)
(* validateEntryOptions: the error it throws, or "ok".                     *)
(***************************************************************************)
ModeIsValid(mode) ==
  \/ mode.t = "undefined"
  \/ mode.t = "int" /\ mode.v >= 0 /\ mode.v <= MAX_2_BYTE

\* (a validation that refuses a length equal to the limit)
ValidateEntryOptions_Geq(nameBytes, commentBytes, mode) ==
  IF nameBytes >= MAX_2_BYTE THEN "RangeError:name"
  ELSE IF commentBytes >= MAX_2_BYTE THEN "RangeError:comment"
  ELSE IF ~ModeIsValid(mode) THEN "RangeError:mode"
  ELSE "ok"

ValidateEntryOptions(nameBytes, commentBytes, mode) ==
  IF nameBytes > MAX_2_BYTE THEN "RangeError:name"
  ELSE IF commentBytes > MAX_2_BYTE THEN "RangeError:comment"
  ELSE IF ~ModeIsValid(mode) THEN "RangeError:mode"
  ELSE "ok"

\* (a test that looks at the offset after the payload too)
EntryNeedsZip64_AfterWrite(uncompressedSize, compressedSize, startOffset) ==
  \/ Geq(uncompressedSize, ZIP64_LIMIT)
  \/ Geq(compressedSize, ZIP64_LIMIT)
  \/ Geq(BigAdd(startOffset, compressedSize), ZIP64_LIMIT)

\* entryNeedsZip64
EntryNeedsZip64(uncompressedSize, compressedSize, startOffset) ==
  \/ Geq(uncompressedSize, ZIP64_LIMIT)
  \/ Geq(compressedSize, ZIP64_LIMIT)
  \/ Geq(startOffset, ZIP64_LIMIT)

\* (a test with strict comparisons)
EocdNeedsZip64_Strict(centralDirectoryStart, centralDirectorySize, entriesCount) ==
  \/ ~Geq(ZIP64_LIMIT, centralDirectoryStart)
  \/ ~Geq(ZIP64_LIMIT, centralDirectorySize)
  \/ entriesCount > MAX_2_BYTE

\* eocdNeedsZip64
EocdNeedsZip64(centralDirectoryStart, centralDirectorySize, entriesCount) ==
  \/ Geq(centralDirectoryStart, ZIP64_LIMIT)
  \/ Geq(centralDirectorySize, ZIP64_LIMIT)
  \/ entriesCount >= MAX_2_BYTE

(***************************************************************************)
(* The CRC primitive, abstracted: a fold over the bytes of the chunk from  *)
(* the running value, 0 for no data, as crc32(chunk, checksum) is.         *)
(***************************************************************************)
RECURSIVE Crc32(_, _)
Crc32(chunk, checksum) ==
  IF chunk = <<>> THEN checksum
  ELSE Crc32(Tail(chunk), (checksum * 3 + Head(chunk)) % 7)

(***************************************************************************)
(* The encoders, by the length of what they return.                        *)
(***************************************************************************)
\* getLocalFileHeader(options).byteLength
LocalFileHeaderLen(o) == LOCAL_FILE_HEADER_SIZE + o.nameBytes

\* (a descriptor of the standard length)
DataDescriptorLen_Standard(e) == DATA_DESCRIPTOR_SIZE

\* getDataDescriptor(entryInfo).byteLength: the buffer is allocated with the
\* ZIP64 size whether or not the entry needs ZIP64.
DataDescriptorLen(e) == DATA_DESCRIPTOR_SIZE_ZIP64

\* `const needsZip64 = entryNeedsZip64(entryInfo)` in getDataDescriptor: the
\* sizes are written as 8-byte fields when it holds, as 4-byte fields (the
\* rest of the buffer left zero) when it does not.
DataDescriptorZip64(e) ==
  EntryNeedsZip64(e.uncompressedSize, e.compressedSize, e.startOffset)

\* getCDFH(entry).byteLength
CDFHLen(e) ==
  CENTRAL_DIRECTORY_HEADER_SIZE + e.nameBytes + e.commentBytes
    + (IF e.zip64 THEN ZIP64_EXTRA_SIZE ELSE 0)

\* DataView.setUint32(offset, value) for a number: the value modulo 2^32.
Uint32(x) == [t |-> "number", hi |-> x.hi % LIMB, lo |-> x.lo]

\* The 32-bit field 0xffffffff.
MAX_4_BYTE == [t |-> "number", hi |-> 65535, lo |-> 65535]

\* No ZIP64 extra field.
NoExtra ==
  [tag |-> 0, size |-> 0, uncompressedSize |-> BigInt(0),
   compressedSize |-> BigInt(0), startOffset |-> BigInt(0)]

\* mode << 16: the left operand is taken modulo 2^32, shifted, and the result
\* is a signed 32-bit integer, here its sign and its magnitude in limbs.
ShiftLeft16(v) ==
  LET h == v % LIMB
  IN  IF h >= LIMB \div 2
      THEN [neg |-> TRUE, hi |-> LIMB - h, lo |-> 0]
      ELSE [neg |-> FALSE, hi |-> h, lo |-> 0]

\* (a store of the magnitude of the value)
SetUint32_Magnitude(x) ==
  [t |-> "number", hi |-> x.hi % LIMB, lo |-> x.lo]

\* DataView.setUint32 of a signed 32-bit integer: the value modulo 2^32.
SetUint32(x) ==
  IF ~x.neg THEN [t |-> "number", hi |-> x.hi % LIMB, lo |-> x.lo]
  ELSE IF x.lo = 0 THEN [t |-> "number", hi |-> (LIMB - x.hi) % LIMB, lo |-> 0]
  ELSE [t |-> "number", hi |-> LIMB - 1 - x.hi, lo |-> LIMB - x.lo]

\* externalAttrs = entryInfo.mode ? entryInfo.mode << 16 : 0, as written by
\* [UINT32, externalAttrs]. A fraction below 1 is truthy and shifts as 0.
ExternalAttrs(mode) ==
  IF mode.t = "int" /\ mode.v # 0 THEN SetUint32(ShiftLeft16(mode.v))
  ELSE SetUint32([neg |-> FALSE, hi |-> 0, lo |-> 0])

\* getCDFH(entryInfo), by the fields it writes: getCDFHZip64 when
\* entryInfo.zip64, getCDFHStandard otherwise.
GetCDFH(entryInfo) ==
  IF entryInfo.zip64
  THEN [versionNeeded |-> VERSION_NEEDED_ZIP64,
        crc32 |-> entryInfo.crc32,
        compressedSize |-> MAX_4_BYTE,
        uncompressedSize |-> MAX_4_BYTE,
        nameLength |-> TextEncode(entryInfo.name),
        externalAttrs |-> ExternalAttrs(entryInfo.mode),
        extraLength |-> ZIP64_EXTRA_SIZE,
        commentLength |-> EncodeOptional(entryInfo.comment),
        startOffset |-> MAX_4_BYTE,
        extra |-> [tag |-> 1, size |-> 24,
                   uncompressedSize |-> ToBigInt(entryInfo.uncompressedSize),
                   compressedSize |-> ToBigInt(entryInfo.compressedSize),
                   startOffset |-> ToBigInt(entryInfo.startOffset)],
        byteLength |-> CENTRAL_DIRECTORY_HEADER_SIZE + TextEncode(entryInfo.name)
                         + ZIP64_EXTRA_SIZE + EncodeOptional(entryInfo.comment)]
  ELSE [versionNeeded |-> VERSION_NEEDED_STANDARD,
        crc32 |-> entryInfo.crc32,
        compressedSize |-> Uint32(entryInfo.compressedSize),
        uncompressedSize |-> Uint32(entryInfo.uncompressedSize),
        nameLength |-> TextEncode(entryInfo.name),
        externalAttrs |-> ExternalAttrs(entryInfo.mode),
        extraLength |-> 0,
        commentLength |-> EncodeOptional(entryInfo.comment),
        startOffset |-> Uint32(entryInfo.startOffset),
        extra |-> NoExtra,
        byteLength |-> CENTRAL_DIRECTORY_HEADER_SIZE + TextEncode(entryInfo.name)
                         + EncodeOptional(entryInfo.comment)]

\* getEOCD(options): whether it returns the ZIP64 end record, its locator and
\* the standard end record, or the standard end record alone.
EOCDZip64(centralDirectoryStart, centralDirectorySize, entriesCount) ==
  EocdNeedsZip64(centralDirectoryStart, centralDirectorySize, entriesCount)

\* getEOCD(options).byteLength
EOCDLen(centralDirectoryStart, centralDirectorySize, entriesCount) ==
  IF EOCDZip64(centralDirectoryStart, centralDirectorySize, entriesCount)
  THEN EOCD64_SIZE + EOCD64_LOCATOR_SIZE + EOCD_SIZE
  ELSE EOCD_SIZE

\* getEOCDStandard(entriesCount, centralDirectoryOffset, centralDirectorySize)
\* by the fields it writes: the standard end record alone.
GetEOCDStandard(entriesCount, centralDirectoryOffset, centralDirectorySize) ==
  [layout |-> <<[k |-> "eocd", n |-> EOCD_SIZE]>>,
   eocd |-> [entriesCount |-> entriesCount % (MAX_2_BYTE + 1),
             centralDirectorySize |-> Uint32(centralDirectorySize),
             centralDirectoryOffset |-> Uint32(centralDirectoryOffset)],
   byteLength |-> EOCD_SIZE]

\* (a locator that points at the start of the central directory)
GetEOCDZip64_LocatorAtStart(entriesCount, centralDirectoryOffset, centralDirectorySize) ==
  [layout |-> <<[k |-> "eocd64", n |-> EOCD64_SIZE],
                [k |-> "locator", n |-> EOCD64_LOCATOR_SIZE],
                [k |-> "eocd", n |-> EOCD_SIZE]>>,
   eocd64 |-> [entriesCount |-> entriesCount,
               centralDirectorySize |-> ToBigInt(centralDirectorySize),
               centralDirectoryOffset |-> ToBigInt(centralDirectoryOffset)],
   locator |-> [offset |-> ToBigInt(centralDirectoryOffset)],
   eocd |-> [entriesCount |-> MAX_2_BYTE,
             centralDirectorySize |-> MAX_4_BYTE,
             centralDirectoryOffset |-> MAX_4_BYTE],
   byteLength |-> EOCD64_SIZE + EOCD64_LOCATOR_SIZE + EOCD_SIZE]

\* getEOCDZip64(entriesCount, centralDirectoryOffset, centralDirectorySize) by
\* the fields it writes: the ZIP64 end record, its locator and the standard
\* end record, in one buffer.
GetEOCDZip64(entriesCount, centralDirectoryOffset, centralDirectorySize) ==
  [layout |-> <<[k |-> "eocd64", n |-> EOCD64_SIZE],
                [k |-> "locator", n |-> EOCD64_LOCATOR_SIZE],
                [k |-> "eocd", n |-> EOCD_SIZE]>>,
   eocd64 |-> [entriesCount |-> entriesCount,
               centralDirectorySize |-> ToBigInt(centralDirectorySize),
               centralDirectoryOffset |-> ToBigInt(centralDirectoryOffset)],
   locator |-> [offset |-> BigAdd(ToBigInt(centralDirectoryOffset),
                                  ToBigInt(centralDirectorySize))],
   eocd |-> [entriesCount |-> MAX_2_BYTE,
             centralDirectorySize |-> MAX_4_BYTE,
             centralDirectoryOffset |-> MAX_4_BYTE],
   byteLength |-> EOCD64_SIZE + EOCD64_LOCATOR_SIZE + EOCD_SIZE]

\* getEOCD(options): getEOCDZip64 when eocdNeedsZip64(options), and
\* getEOCDStandard otherwise.
GetEOCD(centralDirectoryStart, centralDirectorySize, entriesCount) ==
  IF EOCDZip64(centralDirectoryStart, centralDirectorySize, entriesCount)
  THEN GetEOCDZip64(entriesCount, centralDirectoryStart, centralDirectorySize)
  ELSE GetEOCDStandard(entriesCount, centralDirectoryStart,
                       centralDirectorySize)

(***************************************************************************)
(* Entry records.                                                          *)
(***************************************************************************)
\* getPublicEntryInfo: nameBytes and commentBytes are dropped, and the byte
\* counts of an entry that is not ZIP64 become numbers.
GetPublicEntryInfo(e) ==
  [id |-> e.id, name |-> e.name, comment |-> e.comment, mode |-> e.mode,
   store |-> e.store, date |-> e.date, crc32 |-> e.crc32, zip64 |-> e.zip64,
   startOffset |-> IF e.zip64 THEN e.startOffset ELSE ToNumber(e.startOffset),
   uncompressedSize |->
     IF e.zip64 THEN e.uncompressedSize ELSE ToNumber(e.uncompressedSize),
   compressedSize |->
     IF e.zip64 THEN e.compressedSize ELSE ToNumber(e.compressedSize)]

(***************************************************************************)
(* The inputs of addEntry.                                                 *)
(***************************************************************************)
Options(name, comment, mode, store, date) ==
  [name |-> name, comment |-> comment, mode |-> mode, store |-> store,
   date |-> date]

PlainInput ==
  Options(Str(1, 0, 0, 0), UndefinedStr, UndefinedMode, TRUE, Date(1979, 12, 31))
DeflateInput ==
  Options(Str(0, 0, 21845, 0), Str(1, 0, 0, 0), IntMode(420), FALSE,
          UndefinedDate)
LargestInput ==
  Options(Str(65535, 0, 0, 0), Str(65535, 0, 0, 0), IntMode(65535), TRUE,
          Date(2107, 12, 31))

SampleInputs == {PlainInput, DeflateInput, LargestInput}

LongNames == {Str(65536, 0, 0, 0), Str(0, 0, 21846, 0), Str(65534, 1, 0, 0)}
LongComments == {Str(65536, 0, 0, 0), Str(0, 0, 0, 16384)}
OddModes == {IntMode(0 - 1), IntMode(65536), FracMode, NaNMode}

EntryInputs ==
  SampleInputs
    \cup {[PlainInput EXCEPT !.name = n] : n \in LongNames}
    \cup {[PlainInput EXCEPT !.comment = c] : c \in LongComments}
    \cup {[PlainInput EXCEPT !.mode = m] : m \in OddModes}
    \cup {[LargestInput EXCEPT !.name = Str(0, 32768, 0, 0)],
          [LargestInput EXCEPT !.comment = Str(65533, 0, 1, 0)],
          [LargestInput EXCEPT !.mode = IntMode(70000)],
          [DeflateInput EXCEPT !.name = Str(65536, 0, 0, 0), !.mode = FracMode]}

\* The bytes a source may deliver.
Bytes == {1}
Chunks == UNION {[1..n -> Bytes] : n \in 1..MaxPayload}

(***************************************************************************)
(* Errors.                                                                 *)
(***************************************************************************)
NoError == [kind |-> "none", id |-> 0]
SourceError(i) == [kind |-> "source", id |-> i]
SinkError == [kind |-> "sink", id |-> 0]
LockedError == [kind |-> "TypeError:locked", id |-> 0]
\* The errors of #setEntries: 1 no entry at the offset, 2 different CRC32,
\* 3 different uncompressed size, 4 different compressed size.
SetEntriesError(n) == [kind |-> "setEntries", id |-> n]

NoProbe == [f |-> "none"]
NoCall == [addEntry |-> "none", finalize |-> "none"]
Pending == [st |-> "pending", err |-> NoError]
NoOptions ==
  [name |-> EmptyStr, comment |-> UndefinedStr, mode |-> UndefinedMode,
   store |-> FALSE, date |-> UndefinedDate, nameBytes |-> 0, commentBytes |-> 0]
NoLocals ==
  [startOffset |-> BigInt(0), fileStartOffset |-> BigInt(0),
   uncompressedSize |-> BigInt(0), compressedSize |-> BigInt(0),
   checksum |-> 0]
\* The summary finalize has not returned yet.
NoSummary ==
  [def |-> FALSE, zip64 |-> FALSE, uncompressedEntriesSize |-> BigInt(0),
   compressedEntriesSize |-> BigInt(0), fileSize |-> BigInt(0)]
\* `list` is options.entries once #setEntries has accepted it; the others are
\* the variables of the callback and the summary it returns.
NoFinLocals ==
  [hasOverride |-> FALSE, list |-> <<>>, centralDirectoryStart |-> BigInt(0),
   next |-> 1, entryUsesZip64 |-> FALSE, uncompressedEntriesSize |-> BigInt(0),
   compressedEntriesSize |-> BigInt(0), centralDirectorySize |-> BigInt(0),
   summary |-> NoSummary]

\* The writer after construction.
WriterInit ==
  /\ finalized = FALSE
  /\ entries = <<>>
  /\ offset = BigInt(0)
  /\ out = <<>>
  /\ cd = <<>>
  /\ wstate = "writable"
  /\ werr = NoError
  /\ wlock = NoOwner
  /\ mutexQ = <<>>
  /\ pc = [p \in Procs |-> "idle"]
  /\ opt = [i \in EntryIds |-> NoOptions]
  /\ src = [i \in EntryIds |-> "none"]
  /\ loc = [i \in EntryIds |-> NoLocals]
  /\ fin = NoFinLocals
  /\ result = [p \in Procs |-> [st |-> "none", err |-> NoError]]
  /\ nextId = 1
  /\ lastCall = NoCall

Init == WriterInit /\ probe = NoProbe

(***************************************************************************)
(* The mutex (p-mutex): withLock queues the callers in call order, and     *)
(* releases the lock when the callback settles.                            *)
(***************************************************************************)
\* (no mutual exclusion: every queued callback may run)
HoldsMutex_Any(p) == \E k \in 1..Len(mutexQ) : mutexQ[k] = p

\* (a mutex that hands the lock to the caller that queued last)
HoldsMutex_Lifo(p) == mutexQ # <<>> /\ mutexQ[Len(mutexQ)] = p
HoldsMutex(p) == mutexQ # <<>> /\ Head(mutexQ) = p

\* (a mutex that is never released by a callback that rejects)
Settle_HeldOnReject(p, st, err) ==
  /\ result' = [result EXCEPT ![p] = [st |-> st, err |-> err]]
  /\ pc' = [pc EXCEPT ![p] = "done"]
  /\ mutexQ' = IF st = "rejected" THEN mutexQ
               ELSE SelectSeq(mutexQ, LAMBDA q : q # p)

\* The callback of p ends: its promise settles and the mutex is released.
Settle(p, st, err) ==
  /\ result' = [result EXCEPT ![p] = [st |-> st, err |-> err]]
  /\ pc' = [pc EXCEPT ![p] = "done"]
  /\ mutexQ' = SelectSeq(mutexQ, LAMBDA q : q # p)

\* The transform of #zipStream: the chunk is enqueued and counted. The
\* model keeps the successive payload chunks of one entry as one record. A
\* chunk is known by its kind, the call that wrote it, its length (a count
\* like the offset) and, for the records that have two forms, whether it is
\* in the ZIP64 form.
TransformChunk(kind, e, len, zip64) ==
  /\ out' =
       IF kind = "data" /\ out # <<>> /\ out[Len(out)].k = "data"
          /\ out[Len(out)].e = e
       THEN [out EXCEPT ![Len(out)].n = BigAdd(@, len)]
       ELSE Append(out, [k |-> kind, e |-> e, n |-> len, zip64 |-> zip64])
  /\ offset' = BigAdd(offset, len)

\* (a transform that counts the payload only)
Transform_PayloadOnly(kind, e, n) ==
  /\ out' =
       IF kind = "data" /\ out # <<>> /\ out[Len(out)].k = "data"
          /\ out[Len(out)].e = e
       THEN [out EXCEPT ![Len(out)].n = BigAdd(@, BigInt(n))]
       ELSE Append(out, [k |-> kind, e |-> e, n |-> BigInt(n), zip64 |-> FALSE])
  /\ offset' = IF kind = "data" THEN BigAdd(offset, BigInt(n)) ELSE offset

\* The transform applied to a local header or to a chunk of payload of n
\* bytes.
Transform(kind, e, n) == TransformChunk(kind, e, BigInt(n), FALSE)

\* (an abort that leaves the stream writable)
Abort_Recoverable(err) == UNCHANGED <<wstate, werr>>

\* writable.abort(err) / writer.abort(err): a writable stream becomes errored
\* with err; an errored or closed one stays as it is.
Abort(err) ==
  IF wstate = "writable"
  THEN wstate' = "errored" /\ werr' = err
  ELSE UNCHANGED <<wstate, werr>>

\* readable.cancel(): an open or ended source is cancelled.
Cancel(i) ==
  src' = [src EXCEPT ![i] =
            IF src[i] \in {"open", "ended"} THEN "cancelled" ELSE src[i]]

(***************************************************************************)
(* addEntry: the synchronous part.                                         *)
(***************************************************************************)
\* (a throw that aborts the output stream first)
Throw_Abort(op, error) ==
  /\ lastCall' = [lastCall EXCEPT ![op] = error]
  /\ wstate' = IF wstate = "writable" THEN "errored" ELSE wstate
  /\ UNCHANGED <<finalized, entries, offset, out, cd, werr, wlock, mutexQ, pc,
                 opt, src, loc, fin, result, nextId>>
  /\ UNCHANGED probe

\* A call that throws: nothing but the thrown error comes of it.
Throw(op, error) ==
  /\ lastCall' = [lastCall EXCEPT ![op] = error]
  /\ UNCHANGED <<finalized, entries, offset, out, cd, wstate, werr, wlock,
                 mutexQ, pc, opt, src, loc, fin, result, nextId>>
  /\ UNCHANGED probe

\* (an addEntry that does not look at the finalized flag)
AddEntryOutcome_Unguarded(inp) ==
  IF ValidateEntryOptions(TextEncode(inp.name), EncodeOptional(inp.comment),
                          inp.mode) # "ok"
  THEN "RangeError"
  ELSE "ok"

\* What the synchronous part of addEntry comes to: the finalized flag is
\* looked at first, then the options are encoded and validated.
AddEntryOutcome(inp) ==
  IF finalized THEN "TypeError"
  ELSE IF ValidateEntryOptions(TextEncode(inp.name), EncodeOptional(inp.comment),
                               inp.mode) # "ok"
  THEN "RangeError"
  ELSE "ok"

\* (a lock whose latest caller goes first)
WithLock_Front(queue, p) == <<p>> \o queue

\* this.#mutex.withLock(callback): the caller joins the queue of the mutex.
WithLock(queue, p) == Append(queue, p)

AddEntry(inp) ==
  IF AddEntryOutcome(inp) # "ok"
  THEN Throw("addEntry", AddEntryOutcome(inp))
  ELSE /\ nextId <= MaxEntries
       /\ opt' = [opt EXCEPT ![nextId] =
                    [name |-> inp.name, comment |-> inp.comment,
                     mode |-> inp.mode, store |-> inp.store,
                     date |-> inp.date, nameBytes |-> TextEncode(inp.name),
                     commentBytes |-> EncodeOptional(inp.comment)]]
       /\ src' = [src EXCEPT ![nextId] = "open"]
       /\ mutexQ' = WithLock(mutexQ, nextId)
       /\ pc' = [pc EXCEPT ![nextId] = "queued"]
       /\ result' = [result EXCEPT ![nextId] = Pending]
       /\ nextId' = nextId + 1
       /\ lastCall' = [lastCall EXCEPT !.addEntry = "ok"]
       /\ UNCHANGED <<finalized, entries, offset, out, cd, wstate, werr,
                      wlock, loc, fin>>
       /\ UNCHANGED probe

(***************************************************************************)
(* addEntry: the callback run under the mutex.                             *)
(***************************************************************************)
\* The mutex is granted; getWriter() throws when the writable is locked.
EntryStart(i) ==
  /\ pc[i] = "queued"
  /\ HoldsMutex(i)
  /\ IF wlock # NoOwner
     THEN /\ Settle(i, "rejected", LockedError)
          /\ UNCHANGED <<wlock>>
     ELSE /\ wlock' = i
          /\ pc' = [pc EXCEPT ![i] = "ready"]
          /\ UNCHANGED <<result, mutexQ>>
  /\ UNCHANGED <<finalized, entries, offset, out, cd, wstate, werr, opt, src,
                 loc, fin, nextId, lastCall>>
  /\ UNCHANGED probe

\* `await writer.ready; const startOffset = this.#offset`, then the header is
\* handed to the writer. A rejected ready is thrown outside the try block:
\* the writer is not released and the source is not cancelled.
EntryReady(i) ==
  /\ pc[i] = "ready"
  /\ IF wstate = "errored"
     THEN /\ Settle(i, "rejected", werr)
          /\ UNCHANGED <<loc>>
     ELSE /\ loc' = [loc EXCEPT ![i].startOffset = offset]
          /\ pc' = [pc EXCEPT ![i] = "header"]
          /\ UNCHANGED <<result, mutexQ>>
  /\ UNCHANGED <<finalized, entries, offset, out, cd, wstate, werr, wlock, opt,
                 src, fin, nextId, lastCall>>
  /\ UNCHANGED probe

\* The catch block around the header write.
EntryHeaderFailed(i) ==
  /\ Cancel(i)
  /\ Abort(werr)
  /\ wlock' = NoOwner
  /\ Settle(i, "rejected", werr)
  /\ UNCHANGED <<finalized, entries, offset, out, cd, opt, loc, fin, nextId,
                 lastCall>>

\* `await writer.write(getLocalFileHeader(entryOptionsInternal))`
EntryHeader(i) ==
  /\ pc[i] = "header"
  /\ IF wstate = "errored"
     THEN EntryHeaderFailed(i)
     ELSE /\ Transform("lfh", i, LocalFileHeaderLen(opt[i]))
          /\ pc' = [pc EXCEPT ![i] = "headerReady"]
          /\ UNCHANGED <<finalized, entries, cd, wstate, werr, wlock, mutexQ,
                         opt, src, loc, fin, result, nextId, lastCall>>
  /\ UNCHANGED probe

\* `await writer.ready; writer.releaseLock(); const fileStartOffset =
\* this.#offset`, then pipeTo locks the writable for the payload.
EntryHeaderReady(i) ==
  /\ pc[i] = "headerReady"
  /\ IF wstate = "errored"
     THEN EntryHeaderFailed(i)
     ELSE /\ loc' = [loc EXCEPT ![i].fileStartOffset = offset]
          /\ pc' = [pc EXCEPT ![i] = "pipe"]
          /\ UNCHANGED <<finalized, entries, offset, out, cd, wstate, werr,
                         wlock, mutexQ, opt, src, fin, result, nextId, lastCall>>
  /\ UNCHANGED probe

\* What the compression stage emits for a chunk of n bytes, and when it is
\* flushed at the end of the source: the identity transform passes the chunk
\* on, the deflate stream emits what the compressor decides.
CompressedLens(store, n) == IF store THEN {n} ELSE {0, 1}
FlushLens(store) == IF store THEN {0} ELSE {1}

\* One chunk goes from the source through crcAndSizeStream and the
\* compression stage to #zipStream.
PipeChunk(i, chunk, m) ==
  /\ pc[i] = "pipe"
  /\ wstate = "writable"
  /\ src[i] \in {"open", "ended"}
  /\ loc[i].uncompressedSize.hi = 0
  /\ loc[i].uncompressedSize.lo + Len(chunk) <= MaxPayload
  /\ m \in CompressedLens(opt[i].store, Len(chunk))
  /\ loc' = [loc EXCEPT
               ![i].uncompressedSize = BigAdd(@, BigInt(Len(chunk))),
               ![i].checksum = Crc32(chunk, @)]
  /\ IF m > 0 THEN Transform("data", i, m) ELSE UNCHANGED <<out, offset>>
  /\ UNCHANGED <<finalized, entries, cd, wstate, werr, wlock, mutexQ, pc, opt,
                 src, fin, result, nextId, lastCall>>
  /\ UNCHANGED probe

\* (a pipeTo that resolves without releasing the writable)
PipeEnd_KeepsLock(i, m) ==
  /\ pc[i] = "pipe"
  /\ wstate = "writable"
  /\ src[i] = "ended"
  /\ m \in FlushLens(opt[i].store)
  /\ IF m > 0 THEN Transform("data", i, m) ELSE UNCHANGED <<out, offset>>
  /\ pc' = [pc EXCEPT ![i] = "descriptorStart"]
  /\ UNCHANGED <<finalized, entries, cd, wstate, werr, mutexQ, opt, src, loc,
                 fin, result, nextId, lastCall, wlock>>
  /\ UNCHANGED probe

\* The source has ended and every chunk is written: pipeTo releases the
\* writable (which stays open: preventClose) and resolves.
PipeEnd(i, m) ==
  /\ pc[i] = "pipe"
  /\ wstate = "writable"
  /\ src[i] = "ended"
  /\ m \in FlushLens(opt[i].store)
  /\ IF m > 0 THEN Transform("data", i, m) ELSE UNCHANGED <<out, offset>>
  /\ wlock' = NoOwner
  /\ pc' = [pc EXCEPT ![i] = "descriptorStart"]
  /\ UNCHANGED <<finalized, entries, cd, wstate, werr, mutexQ, opt, src, loc,
                 fin, result, nextId, lastCall>>
  /\ UNCHANGED probe

\* (a pipeTo with preventAbort: the writable is left as it is)
PipeSourceError_PreventAbort(i) ==
  /\ pc[i] = "pipe"
  /\ src[i] = "errored"
  /\ wlock' = NoOwner
  /\ Settle(i, "rejected", SourceError(i))
  /\ UNCHANGED <<finalized, entries, offset, out, cd, opt, src, loc, fin,
                 nextId, lastCall, wstate, werr>>
  /\ UNCHANGED probe

\* The source is errored: pipeTo aborts the writable with the source's error
\* and rejects with it; nothing catches it in the callback.
PipeSourceError(i) ==
  /\ pc[i] = "pipe"
  /\ src[i] = "errored"
  /\ Abort(SourceError(i))
  /\ wlock' = NoOwner
  /\ Settle(i, "rejected", SourceError(i))
  /\ UNCHANGED <<finalized, entries, offset, out, cd, opt, src, loc, fin,
                 nextId, lastCall>>
  /\ UNCHANGED probe

\* (a pipeTo with preventCancel: the source is left as it is)
PipeDestError_PreventCancel(i) ==
  /\ pc[i] = "pipe"
  /\ wstate = "errored"
  /\ wlock' = NoOwner
  /\ Settle(i, "rejected", werr)
  /\ UNCHANGED <<finalized, entries, offset, out, cd, wstate, werr, opt, loc,
                 fin, nextId, lastCall, src>>
  /\ UNCHANGED probe

\* The writable is errored: pipeTo cancels the source and rejects with the
\* writable's error.
PipeDestError(i) ==
  /\ pc[i] = "pipe"
  /\ wstate = "errored"
  /\ Cancel(i)
  /\ wlock' = NoOwner
  /\ Settle(i, "rejected", werr)
  /\ UNCHANGED <<finalized, entries, offset, out, cd, wstate, werr, opt, loc,
                 fin, nextId, lastCall>>
  /\ UNCHANGED probe

\* The callback resumes after pipeTo: `writer = this.#zipStream.writable
\* .getWriter()`, which throws when the writable is locked.
EntryDescriptorStart(i) ==
  /\ pc[i] = "descriptorStart"
  /\ IF wlock # NoOwner
     THEN /\ Settle(i, "rejected", LockedError)
          /\ UNCHANGED <<wlock>>
     ELSE /\ wlock' = i
          /\ pc' = [pc EXCEPT ![i] = "descriptorReady"]
          /\ UNCHANGED <<result, mutexQ>>
  /\ UNCHANGED <<finalized, entries, offset, out, cd, wstate, werr, opt, src,
                 loc, fin, nextId, lastCall>>
  /\ UNCHANGED probe

\* (a callback that counts the compressed bytes from the start of the entry)
EntryDescriptorReady_FromStart(i) ==
  /\ pc[i] = "descriptorReady"
  /\ IF wstate = "errored"
     THEN /\ Settle(i, "rejected", werr)
          /\ UNCHANGED <<loc>>
     ELSE /\ loc' = [loc EXCEPT
                       ![i].compressedSize = BigSub(offset, loc[i].startOffset)]
          /\ pc' = [pc EXCEPT ![i] = "descriptor"]
          /\ UNCHANGED <<result, mutexQ>>
  /\ UNCHANGED <<finalized, entries, offset, out, cd, wstate, werr, wlock, opt,
                 src, fin, nextId, lastCall>>
  /\ UNCHANGED probe

\* `await writer.ready; const compressedSize = this.#offset - fileStartOffset`.
\* A rejected ready is thrown outside the try block: the writer stays locked.
EntryDescriptorReady(i) ==
  /\ pc[i] = "descriptorReady"
  /\ IF wstate = "errored"
     THEN /\ Settle(i, "rejected", werr)
          /\ UNCHANGED <<loc>>
     ELSE /\ loc' = [loc EXCEPT
                       ![i].compressedSize = BigSub(offset, loc[i].fileStartOffset)]
          /\ pc' = [pc EXCEPT ![i] = "descriptor"]
          /\ UNCHANGED <<result, mutexQ>>
  /\ UNCHANGED <<finalized, entries, offset, out, cd, wstate, werr, wlock, opt,
                 src, fin, nextId, lastCall>>
  /\ UNCHANGED probe

\* The record of entry i, as built before the data descriptor is written.
EntryInfoOf(i) ==
  [id |-> i, name |-> opt[i].name, comment |-> opt[i].comment,
   mode |-> opt[i].mode, store |-> opt[i].store, date |-> opt[i].date,
   nameBytes |-> opt[i].nameBytes, commentBytes |-> opt[i].commentBytes,
   startOffset |-> loc[i].startOffset, crc32 |-> loc[i].checksum,
   uncompressedSize |-> loc[i].uncompressedSize,
   compressedSize |-> loc[i].compressedSize,
   zip64 |-> EntryNeedsZip64(loc[i].uncompressedSize, loc[i].compressedSize,
                             loc[i].startOffset)]

\* `await writer.write(getDataDescriptor(entryInfo))`, then the record is
\* pushed; on a failed write the writer is aborted and released.
EntryDescriptor(i) ==
  /\ pc[i] = "descriptor"
  /\ wlock' = NoOwner
  /\ IF wstate = "errored"
     THEN /\ Abort(werr)
          /\ Settle(i, "rejected", werr)
          /\ UNCHANGED <<entries, offset, out>>
     ELSE /\ TransformChunk("dd", i, BigInt(DataDescriptorLen(EntryInfoOf(i))),
                             DataDescriptorZip64(EntryInfoOf(i)))
          /\ entries' = Append(entries, EntryInfoOf(i))
          /\ Settle(i, "resolved", NoError)
          /\ UNCHANGED <<wstate, werr>>
  /\ UNCHANGED <<finalized, cd, opt, src, loc, fin, nextId, lastCall>>
  /\ UNCHANGED probe

(***************************************************************************)
(* The environment: the entry sources and the consumer of the output.     *)
(***************************************************************************)
\* The source of entry i has produced its last chunk.
SourceEnd(i) ==
  /\ src[i] = "open"
  /\ src' = [src EXCEPT ![i] = "ended"]
  /\ UNCHANGED <<finalized, entries, offset, out, cd, wstate, werr, wlock,
                 mutexQ, pc, opt, loc, fin, result, nextId, lastCall>>
  /\ UNCHANGED probe

\* The source of entry i errors.
SourceFail(i) ==
  /\ src[i] = "open"
  /\ src' = [src EXCEPT ![i] = "errored"]
  /\ UNCHANGED <<finalized, entries, offset, out, cd, wstate, werr, wlock,
                 mutexQ, pc, opt, loc, fin, result, nextId, lastCall>>
  /\ UNCHANGED probe

\* The consumer of the readable side errors or cancels: the TransformStream
\* errors its writable side with the consumer's reason.
SinkFail ==
  /\ wstate = "writable"
  /\ wstate' = "errored"
  /\ werr' = SinkError
  /\ UNCHANGED <<finalized, entries, offset, out, cd, wlock, mutexQ, pc, opt,
                 src, loc, fin, result, nextId, lastCall>>
  /\ UNCHANGED probe

(***************************************************************************)
(* finalize.                                                               *)
(***************************************************************************)
\* What a caller may do to a public record before passing it to finalize.
Renamed(e) == [e EXCEPT !.name = Str(2, 0, 0, 0), !.comment = Str(3, 0, 0, 0)]
OtherOffset(e) == [e EXCEPT !.startOffset = [@ EXCEPT !.hi = 1, !.lo = 34463]]
OtherCrc(e) == [e EXCEPT !.crc32 = @ + 1]
OtherUncompressedSize(e) == [e EXCEPT !.uncompressedSize.lo = @ + 1]
OtherCompressedSize(e) == [e EXCEPT !.compressedSize.lo = @ + 1]
OtherZip64(e) == [e EXCEPT !.zip64 = ~@]

\* The ways a caller may change a record.
Altered(e, how) ==
  CASE how = "name" -> Renamed(e)
    [] how = "startOffset" -> OtherOffset(e)
    [] how = "crc32" -> OtherCrc(e)
    [] how = "uncompressedSize" -> OtherUncompressedSize(e)
    [] how = "compressedSize" -> OtherCompressedSize(e)
    [] how = "zip64" -> OtherZip64(e)
    [] OTHER -> e
Alterations ==
  {"none", "name", "startOffset", "crc32", "uncompressedSize", "compressedSize",
   "zip64"}

\* The lists a caller may pass as options.entries: the public records of
\* written entries, in any order, with omissions and repetitions, one record
\* of the list changed at most.
Overrides ==
  {[k \in 1..Len(idx) |->
      IF k = at THEN Altered(GetPublicEntryInfo(entries[idx[k]]), how)
      ELSE GetPublicEntryInfo(entries[idx[k]])] :
     idx \in UNION {[1..n -> 1..Len(entries)] : n \in 0..MaxOverride},
     at \in 1..MaxOverride, how \in Alterations}

\* currentEntriesByOffset.get(BigInt(entry.startOffset))
ExistingEntries(x) ==
  {k \in 1..Len(entries) : entries[k].startOffset = ToBigInt(x.startOffset)}
ExistingEntry(x) ==
  entries[CHOOSE k \in ExistingEntries(x) : \A j \in ExistingEntries(x) : j <= k]

\* (a check that does not compare the checksums)
CheckEntry_NoCrc(x) ==
  IF ExistingEntries(x) = {} THEN 1
  ELSE IF ~StrictEq(ExistingEntry(x).uncompressedSize, ToBigInt(x.uncompressedSize))
  THEN 3
  ELSE IF ~StrictEq(ExistingEntry(x).compressedSize, ToBigInt(x.compressedSize))
  THEN 4
  ELSE 0

\* The check #setEntries makes of one record: 0 when it passes, else the
\* number of the error thrown.
CheckEntry(x) ==
  IF ExistingEntries(x) = {} THEN 1
  ELSE IF ExistingEntry(x).crc32 # x.crc32 THEN 2
  ELSE IF ~StrictEq(ExistingEntry(x).uncompressedSize, ToBigInt(x.uncompressedSize))
  THEN 3
  ELSE IF ~StrictEq(ExistingEntry(x).compressedSize, ToBigInt(x.compressedSize))
  THEN 4
  ELSE 0

\* The error #setEntries throws for the list: that of its first record that
\* fails a check, or 0.
RECURSIVE CheckEntries(_)
CheckEntries(list) ==
  IF list = <<>> THEN 0
  ELSE IF CheckEntry(Head(list)) # 0 THEN CheckEntry(Head(list))
  ELSE CheckEntries(Tail(list))

\* (a record that keeps the name and the comment the entry was written with)
InternalEntry_WrittenName(x) ==
  [id |-> x.id, name |-> ExistingEntry(x).name,
   comment |-> ExistingEntry(x).comment, mode |-> x.mode,
   store |-> x.store, date |-> x.date, crc32 |-> x.crc32, zip64 |-> x.zip64,
   nameBytes |-> ExistingEntry(x).nameBytes,
   commentBytes |-> ExistingEntry(x).commentBytes,
   startOffset |-> ToBigInt(x.startOffset),
   uncompressedSize |-> ToBigInt(x.uncompressedSize),
   compressedSize |-> ToBigInt(x.compressedSize)]

\* The internal record #setEntries makes of a record of the list.
InternalEntry(x) ==
  [id |-> x.id, name |-> x.name, comment |-> x.comment, mode |-> x.mode,
   store |-> x.store, date |-> x.date, crc32 |-> x.crc32, zip64 |-> x.zip64,
   nameBytes |-> TextEncode(x.name), commentBytes |-> EncodeOptional(x.comment),
   startOffset |-> ToBigInt(x.startOffset),
   uncompressedSize |-> ToBigInt(x.uncompressedSize),
   compressedSize |-> ToBigInt(x.compressedSize)]

SetEntries(list) == [k \in 1..Len(list) |-> InternalEntry(list[k])]

\* (a finalize that may be called again)
FinalizeOutcome_Unguarded == "ok"

\* finalize: the synchronous part.
FinalizeOutcome == IF finalized THEN "TypeError" ELSE "ok"

Finalize(hasOverride) ==
  IF FinalizeOutcome # "ok"
  THEN Throw("finalize", FinalizeOutcome)
  ELSE /\ finalized' = TRUE
       /\ fin' = [fin EXCEPT !.hasOverride = hasOverride]
       /\ mutexQ' = WithLock(mutexQ, FIN)
       /\ pc' = [pc EXCEPT ![FIN] = "queued"]
       /\ result' = [result EXCEPT ![FIN] = Pending]
       /\ lastCall' = [lastCall EXCEPT !.finalize = "ok"]
       /\ UNCHANGED <<entries, offset, out, cd, wstate, werr, wlock, opt, src,
                      loc, nextId>>
       /\ UNCHANGED probe

\* this.#zipStream.writable.abort(err), called on the stream and not on a
\* writer: it does nothing (but return a rejected promise) when a writer
\* holds the lock.
StreamAbort(err) ==
  IF wlock = NoOwner THEN Abort(err) ELSE UNCHANGED <<wstate, werr>>

\* (a #setEntries that stores the list before it checks it)
FinalizeStart_AssignsFirst(list) ==
  /\ IF fin.hasOverride /\ CheckEntries(list) # 0
     THEN /\ StreamAbort(SetEntriesError(CheckEntries(list)))
          /\ Settle(FIN, "rejected", SetEntriesError(CheckEntries(list)))
          /\ entries' = SetEntries(list)
          /\ UNCHANGED <<wlock, fin>>
     ELSE /\ entries' = IF fin.hasOverride THEN SetEntries(list) ELSE entries
          /\ fin' = [fin EXCEPT !.list = list]
          /\ IF wlock # NoOwner
             THEN /\ Settle(FIN, "rejected", LockedError)
                  /\ UNCHANGED <<wlock>>
             ELSE /\ wlock' = FIN
                  /\ pc' = [pc EXCEPT ![FIN] = "ready"]
                  /\ UNCHANGED <<result, mutexQ>>
          /\ UNCHANGED <<wstate, werr>>
  /\ UNCHANGED <<finalized, offset, out, cd, opt, src, loc, nextId, lastCall>>
  /\ UNCHANGED probe

\* The mutex is granted to finalize: the list, when one was given, replaces
\* the entries or is refused; then finalize takes the writer. The list is the
\* one given to finalize(); the model tells what it holds only here, where
\* it is first read.
FinalizeStart(list) ==
  /\ IF fin.hasOverride /\ CheckEntries(list) # 0
     THEN /\ StreamAbort(SetEntriesError(CheckEntries(list)))
          /\ Settle(FIN, "rejected", SetEntriesError(CheckEntries(list)))
          /\ UNCHANGED <<entries, wlock, fin>>
     ELSE /\ entries' = IF fin.hasOverride THEN SetEntries(list) ELSE entries
          /\ fin' = [fin EXCEPT !.list = list]
          /\ IF wlock # NoOwner
             THEN /\ Settle(FIN, "rejected", LockedError)
                  /\ UNCHANGED <<wlock>>
             ELSE /\ wlock' = FIN
                  /\ pc' = [pc EXCEPT ![FIN] = "ready"]
                  /\ UNCHANGED <<result, mutexQ>>
          /\ UNCHANGED <<wstate, werr>>
  /\ UNCHANGED <<finalized, offset, out, cd, opt, src, loc, nextId, lastCall>>
  /\ UNCHANGED probe

\* `await writer.ready; const centralDirectoryStart = this.#offset`, outside
\* the try block.
FinalizeReady ==
  /\ pc[FIN] = "ready"
  /\ IF wstate = "errored"
     THEN /\ Settle(FIN, "rejected", werr)
          /\ UNCHANGED <<fin>>
     ELSE /\ fin' = [fin EXCEPT !.centralDirectoryStart = offset, !.next = 1]
          /\ pc' = [pc EXCEPT ![FIN] = "directory"]
          /\ UNCHANGED <<result, mutexQ>>
  /\ UNCHANGED <<finalized, entries, offset, out, cd, wstate, werr, wlock, opt,
                 src, loc, nextId, lastCall>>
  /\ UNCHANGED probe

\* (a catch block that aborts the writer and swallows the error)
FinalizeFailed_Swallow ==
  /\ Abort(werr)
  /\ wlock' = NoOwner
  /\ Settle(FIN, "resolved", NoError)
  /\ UNCHANGED <<finalized, entries, offset, out, cd, opt, src, loc, fin,
                 nextId, lastCall>>

\* The catch and finally blocks of finalize: the writer is aborted and
\* released, and the promise rejects.
FinalizeFailed ==
  /\ Abort(werr)
  /\ wlock' = NoOwner
  /\ Settle(FIN, "rejected", werr)
  /\ UNCHANGED <<finalized, entries, offset, out, cd, opt, src, loc, fin,
                 nextId, lastCall>>

\* One turn of the loop: `await writer.ready; await writer.write(getCDFH(entry))`
FinalizeCDFH ==
  /\ pc[FIN] = "directory"
  /\ fin.next <= Len(entries)
  /\ IF wstate = "errored"
     THEN FinalizeFailed
     ELSE /\ TransformChunk("cdfh", FIN, BigInt(CDFHLen(entries[fin.next])),
                             entries[fin.next].zip64)
          /\ cd' = Append(cd, entries[fin.next])
          /\ fin' = [fin EXCEPT
                       !.next = @ + 1,
                       !.entryUsesZip64 = @ \/ entries[fin.next].zip64,
                       !.uncompressedEntriesSize =
                          BigAdd(@, ToBigInt(entries[fin.next].uncompressedSize)),
                       !.compressedEntriesSize =
                          BigAdd(@, ToBigInt(entries[fin.next].compressedSize))]
          /\ UNCHANGED <<finalized, entries, wstate, werr, wlock, mutexQ, pc,
                         opt, src, loc, result, nextId, lastCall>>
  /\ UNCHANGED probe

\* After the loop: `await writer.ready`, the size of the directory is read
\* from the offset and the EOCD is written.
FinalizeEOCD ==
  /\ pc[FIN] = "directory"
  /\ fin.next > Len(entries)
  /\ IF wstate = "errored"
     THEN FinalizeFailed
     ELSE /\ TransformChunk(
               "eocd", FIN,
               BigInt(EOCDLen(fin.centralDirectoryStart,
                              BigSub(offset, fin.centralDirectoryStart),
                              Len(entries))),
               EOCDZip64(fin.centralDirectoryStart,
                         BigSub(offset, fin.centralDirectoryStart),
                         Len(entries)))
          /\ fin' = [fin EXCEPT !.centralDirectorySize =
                                     BigSub(offset, fin.centralDirectoryStart)]
          /\ pc' = [pc EXCEPT ![FIN] = "close"]
          /\ UNCHANGED <<finalized, entries, cd, wstate, werr, wlock, mutexQ,
                         opt, src, loc, result, nextId, lastCall>>
  /\ UNCHANGED probe

\* (a summary whose fileSize stops at the end of the central directory)
Summary_DirectoryEnd ==
  LET zip64 == EocdNeedsZip64(fin.centralDirectoryStart,
                              fin.centralDirectorySize, Len(entries))
               \/ fin.entryUsesZip64
      end == BigAdd(fin.centralDirectoryStart, fin.centralDirectorySize)
  IN  IF zip64
      THEN [def |-> TRUE, zip64 |-> TRUE,
            uncompressedEntriesSize |-> fin.uncompressedEntriesSize,
            compressedEntriesSize |-> fin.compressedEntriesSize,
            fileSize |-> end]
      ELSE [def |-> TRUE, zip64 |-> FALSE,
            uncompressedEntriesSize |-> ToNumber(fin.uncompressedEntriesSize),
            compressedEntriesSize |-> ToNumber(fin.compressedEntriesSize),
            fileSize |-> ToNumber(end)]

\* (a summary that looks at the entries only)
Summary_EntriesOnly ==
  IF fin.entryUsesZip64
  THEN [def |-> TRUE, zip64 |-> TRUE,
        uncompressedEntriesSize |-> fin.uncompressedEntriesSize,
        compressedEntriesSize |-> fin.compressedEntriesSize,
        fileSize |-> offset]
  ELSE [def |-> TRUE, zip64 |-> FALSE,
        uncompressedEntriesSize |-> ToNumber(fin.uncompressedEntriesSize),
        compressedEntriesSize |-> ToNumber(fin.compressedEntriesSize),
        fileSize |-> ToNumber(offset)]

\* The summary finalize returns: bigints when the archive is ZIP64, numbers
\* when it is not.
Summary ==
  LET zip64 == EocdNeedsZip64(fin.centralDirectoryStart,
                              fin.centralDirectorySize, Len(entries))
               \/ fin.entryUsesZip64
  IN  IF zip64
      THEN [def |-> TRUE, zip64 |-> TRUE,
            uncompressedEntriesSize |-> fin.uncompressedEntriesSize,
            compressedEntriesSize |-> fin.compressedEntriesSize,
            fileSize |-> offset]
      ELSE [def |-> TRUE, zip64 |-> FALSE,
            uncompressedEntriesSize |-> ToNumber(fin.uncompressedEntriesSize),
            compressedEntriesSize |-> ToNumber(fin.compressedEntriesSize),
            fileSize |-> ToNumber(offset)]

\* `await writer.close()`, then the summary is returned.
FinalizeClose ==
  /\ pc[FIN] = "close"
  /\ IF wstate = "errored"
     THEN FinalizeFailed
     ELSE /\ wstate' = "closed"
          /\ wlock' = NoOwner
          /\ Settle(FIN, "resolved", NoError)
          /\ fin' = [fin EXCEPT !.summary = Summary]
          /\ UNCHANGED <<finalized, entries, offset, out, cd, werr, opt, src,
                         loc, nextId, lastCall>>
  /\ UNCHANGED probe

(***************************************************************************)
(* The specifications: Spec has the calls, the callbacks and the entry     *)
(* sources; SpecSink has, besides, a consumer that may fail at any time.   *)
(***************************************************************************)
EntryStep(i) ==
  \/ EntryStart(i)
  \/ EntryReady(i)
  \/ EntryHeader(i)
  \/ EntryHeaderReady(i)
  \/ pc[i] = "pipe" /\ \E chunk \in Chunks, m \in 0..MaxPayload :
                          PipeChunk(i, chunk, m)
  \/ \E m \in 0..1 : PipeEnd(i, m)
  \/ PipeSourceError(i)
  \/ EntryDescriptorStart(i)
  \/ EntryDescriptorReady(i)
  \/ EntryDescriptor(i)

FinalizeStep ==
  \/ /\ pc[FIN] = "queued"
     /\ HoldsMutex(FIN)
     /\ \E list \in (IF fin.hasOverride THEN Overrides ELSE {<<>>}) :
          FinalizeStart(list)
  \/ FinalizeReady
  \/ FinalizeCDFH
  \/ FinalizeEOCD
  \/ FinalizeClose

Next ==
  \/ \E inp \in EntryInputs : AddEntry(inp)
  \/ \E hasOverride \in BOOLEAN : Finalize(hasOverride)
  \/ \E i \in EntryIds : EntryStep(i) \/ SourceEnd(i) \/ SourceFail(i)
  \/ FinalizeStep

NextSink ==
  \/ Next
  \/ SinkFail
  \/ \E i \in EntryIds : PipeDestError(i)

Spec == Init /\ [][Next]_vars

\* The writer whose finalize() is called without options.
NextPlain ==
  \/ \E inp \in EntryInputs : AddEntry(inp)
  \/ Finalize(FALSE)
  \/ \E i \in EntryIds : EntryStep(i) \/ SourceEnd(i) \/ SourceFail(i)
  \/ FinalizeStep

SpecPlain == Init /\ [][NextPlain]_vars

\* The writer given valid options only, whose finalize() may be given a list
\* of entries.
NextList ==
  \/ \E inp \in SampleInputs : AddEntry(inp)
  \/ \E hasOverride \in BOOLEAN : Finalize(hasOverride)
  \/ \E i \in EntryIds : EntryStep(i) \/ SourceEnd(i) \/ SourceFail(i)
  \/ FinalizeStep

SpecList == Init /\ [][NextList]_vars

SpecSink == Init /\ [][NextSink]_vars

(***************************************************************************)
(* Failures. SpecFaults is SpecSink for two kinds of entries and a         *)
(* finalize() without options: sources and the consumer may fail at any    *)
(* time.                                                                   *)
(***************************************************************************)
FaultInputs ==
  {PlainInput, [DeflateInput EXCEPT !.name = Str(1, 0, 0, 0)]}

NextFaults ==
  \/ \E inp \in FaultInputs : AddEntry(inp)
  \/ Finalize(FALSE)
  \/ \E i \in EntryIds :
       EntryStep(i) \/ SourceEnd(i) \/ SourceFail(i) \/ PipeDestError(i)
  \/ FinalizeStep
  \/ SinkFail

SpecFaults == Init /\ [][NextFaults]_vars

\* The callbacks are promise continuations: each runs when it can.
SpecFaultsFair ==
  /\ SpecFaults
  /\ WF_vars(FinalizeStep)
  /\ \A i \in EntryIds : WF_vars(EntryStep(i))

(***************************************************************************)
(* The writer when nothing fails: no source errors, every source ends and  *)
(* the consumer keeps consuming; a callback goes on as soon as what it     *)
(* waits for has settled.                                                  *)
(***************************************************************************)
EntryStepSteady(i) ==
  \/ EntryStart(i)
  \/ EntryReady(i)
  \/ EntryHeader(i)
  \/ EntryHeaderReady(i)
  \/ pc[i] = "pipe" /\ \E chunk \in Chunks, m \in 0..MaxPayload :
                          PipeChunk(i, chunk, m)
  \/ \E m \in 0..1 : PipeEnd(i, m)
  \/ EntryDescriptorStart(i)
  \/ EntryDescriptorReady(i)
  \/ EntryDescriptor(i)

NextSteady ==
  \/ \E inp \in FaultInputs : AddEntry(inp)
  \/ \E hasOverride \in BOOLEAN : Finalize(hasOverride)
  \/ \E i \in EntryIds : EntryStepSteady(i) \/ SourceEnd(i)
  \/ FinalizeStep

SpecSteady ==
  /\ Init
  /\ [][NextSteady]_vars
  /\ WF_vars(FinalizeStep)
  /\ \A i \in EntryIds : WF_vars(EntryStepSteady(i)) /\ WF_vars(SourceEnd(i))

(***************************************************************************)
(* entries(). One call of entries() is made at any moment of the life of   *)
(* the writer; it joins the queue of the mutex like the other calls, and   *)
(* its callback maps #entries to the public records.                       *)
(***************************************************************************)
READER == MaxEntries + 3

\* `before` is the number of addEntry calls made before the call of
\* entries(), `value` what its promise resolved with.
NoReader == [f |-> "entries", st |-> "idle", before |-> 0, value |-> <<>>]

\* entries(): `return this.#mutex.withLock(...)`
Entries ==
  /\ probe.st = "idle"
  /\ probe' = [probe EXCEPT !.st = "queued", !.before = nextId - 1]
  /\ mutexQ' = WithLock(mutexQ, READER)
  /\ UNCHANGED <<finalized, entries, offset, out, cd, wstate, werr, wlock, pc,
                 opt, src, loc, fin, result, nextId, lastCall>>

\* (a callback that does not wait for the mutex)
EntriesCallback_NoLock ==
  /\ probe.st = "queued"
  /\ probe' = [probe EXCEPT
                 !.st = "resolved",
                 !.value = [k \in 1..Len(entries) |->
                              GetPublicEntryInfo(entries[k])]]
  /\ mutexQ' = SelectSeq(mutexQ, LAMBDA q : q # READER)
  /\ UNCHANGED <<finalized, entries, offset, out, cd, wstate, werr, wlock, pc,
                 opt, src, loc, fin, result, nextId, lastCall>>

\* `() => this.#entries.map((entry) => getPublicEntryInfo(entry))`, run with
\* the mutex held and released at once.
EntriesCallback ==
  /\ probe.st = "queued"
  /\ HoldsMutex(READER)
  /\ probe' = [probe EXCEPT
                 !.st = "resolved",
                 !.value = [k \in 1..Len(entries) |->
                              GetPublicEntryInfo(entries[k])]]
  /\ mutexQ' = SelectSeq(mutexQ, LAMBDA q : q # READER)
  /\ UNCHANGED <<finalized, entries, offset, out, cd, wstate, werr, wlock, pc,
                 opt, src, loc, fin, result, nextId, lastCall>>

NextEntries ==
  \/ \E inp \in FaultInputs : AddEntry(inp)
  \/ \E hasOverride \in BOOLEAN : Finalize(hasOverride)
  \/ \E i \in EntryIds : EntryStep(i) \/ SourceEnd(i) \/ SourceFail(i)
  \/ FinalizeStep
  \/ Entries
  \/ EntriesCallback

InitEntries == WriterInit /\ probe = NoReader

SpecEntries == InitEntries /\ [][NextEntries]_vars

(***************************************************************************)
(* Sources of distinct bytes. The writer is run with sources that deliver  *)
(* chunks of the bytes 1 and 2, and the bytes read from the source of each *)
(* entry are remembered, in the order they were read.                      *)
(***************************************************************************)
ReadBytes == {1, 2}
MaxRead == 2
ReadChunks == UNION {[1..n -> ReadBytes] : n \in 1..2}

NothingRead == [f |-> "read", bytes |-> [i \in EntryIds |-> <<>>]]

\* (a crcAndSizeStream that starts the checksum anew for every chunk)
PipeRead_Restart(i, chunk, m) ==
  /\ pc[i] = "pipe"
  /\ wstate = "writable"
  /\ src[i] \in {"open", "ended"}
  /\ Len(probe.bytes[i]) + Len(chunk) <= MaxRead
  /\ m \in CompressedLens(opt[i].store, Len(chunk))
  /\ loc' = [loc EXCEPT
               ![i].uncompressedSize = BigAdd(@, BigInt(Len(chunk))),
               ![i].checksum = Crc32(chunk, 0)]
  /\ probe' = [probe EXCEPT !.bytes[i] = @ \o chunk]
  /\ IF m > 0 THEN Transform("data", i, m) ELSE UNCHANGED <<out, offset>>
  /\ UNCHANGED <<finalized, entries, cd, wstate, werr, wlock, mutexQ, pc, opt,
                 src, fin, result, nextId, lastCall>>

\* (a crcAndSizeStream that keeps the length of the last chunk as the size)
PipeRead_LastChunk(i, chunk, m) ==
  /\ pc[i] = "pipe"
  /\ wstate = "writable"
  /\ src[i] \in {"open", "ended"}
  /\ Len(probe.bytes[i]) + Len(chunk) <= MaxRead
  /\ m \in CompressedLens(opt[i].store, Len(chunk))
  /\ loc' = [loc EXCEPT
               ![i].uncompressedSize = BigInt(Len(chunk)),
               ![i].checksum = Crc32(chunk, @)]
  /\ probe' = [probe EXCEPT !.bytes[i] = @ \o chunk]
  /\ IF m > 0 THEN Transform("data", i, m) ELSE UNCHANGED <<out, offset>>
  /\ UNCHANGED <<finalized, entries, cd, wstate, werr, wlock, mutexQ, pc, opt,
                 src, fin, result, nextId, lastCall>>

\* One chunk goes from the source through crcAndSizeStream and the
\* compression stage to #zipStream (PipeChunk, for a chunk of any bytes).
PipeRead(i, chunk, m) ==
  /\ pc[i] = "pipe"
  /\ wstate = "writable"
  /\ src[i] \in {"open", "ended"}
  /\ Len(probe.bytes[i]) + Len(chunk) <= MaxRead
  /\ m \in CompressedLens(opt[i].store, Len(chunk))
  /\ loc' = [loc EXCEPT
               ![i].uncompressedSize = BigAdd(@, BigInt(Len(chunk))),
               ![i].checksum = Crc32(chunk, @)]
  /\ probe' = [probe EXCEPT !.bytes[i] = @ \o chunk]
  /\ IF m > 0 THEN Transform("data", i, m) ELSE UNCHANGED <<out, offset>>
  /\ UNCHANGED <<finalized, entries, cd, wstate, werr, wlock, mutexQ, pc, opt,
                 src, fin, result, nextId, lastCall>>

ReadInputs ==
  {PlainInput, [DeflateInput EXCEPT !.name = Str(1, 0, 0, 0)]}

EntryStepRead(i) ==
  \/ EntryStart(i)
  \/ EntryReady(i)
  \/ EntryHeader(i)
  \/ EntryHeaderReady(i)
  \/ pc[i] = "pipe" /\ \E chunk \in ReadChunks, m \in 0..2 :
                          PipeRead(i, chunk, m)
  \/ \E m \in 0..1 : PipeEnd(i, m)
  \/ EntryDescriptorStart(i)
  \/ EntryDescriptorReady(i)
  \/ EntryDescriptor(i)

NextRead ==
  \/ \E inp \in ReadInputs : AddEntry(inp)
  \/ \E hasOverride \in BOOLEAN : Finalize(hasOverride)
  \/ \E i \in EntryIds : EntryStepRead(i) \/ SourceEnd(i)
  \/ FinalizeStep

InitRead == WriterInit /\ probe = NothingRead

SpecRead == InitRead /\ [][NextRead]_vars

(***************************************************************************)
(* Archives around the ZIP64 limit. A source may deliver, besides single   *)
(* chunks, a long run of chunks whose lengths add up to a count next to    *)
(* 2^32 - 1; the run is taken as one step of the pipeline.                 *)
(***************************************************************************)
\* What lies between the end of a payload and the start of the next entry or
\* of the directory, for an entry with a name of one byte: the descriptor;
\* and before the payload: the local header.
NextStartGap == LOCAL_FILE_HEADER_SIZE + 1 + DATA_DESCRIPTOR_SIZE_ZIP64

\* The lengths of the long runs: 2^32 - 1 and 2^32 - 2, and the lengths after
\* which the next entry of the archive starts at 2^32 - 1 and at 2^32 - 2.
HugeLens ==
  {BigSub(ZIP64_LIMIT, BigInt(k)) : k \in {0, 1, NextStartGap, NextStartGap + 1}}

\* crc32 folded over a run of len bytes, each of them the byte 1 of Bytes:
\* the fold c -> (3c + 1) % 7 applied len times is 3 + 3^len (c - 3) modulo
\* 7, and 3^6 = 1, 2^16 = 4 modulo 6.
CrcRun(len, checksum) ==
  LET r == (4 * len.hi + len.lo) % 6
      pow == <<1, 3, 2, 6, 4, 5>>[r + 1]
  IN  (3 + pow * (checksum + 4)) % 7

\* What the compression stage emits for a long run: the identity transform
\* passes it on; the deflate stream may emit as much, or next to nothing.
HugeCompressedLens(store, len) == IF store THEN {len} ELSE {len, BigInt(1)}

\* A long run of chunks goes from the source through crcAndSizeStream and
\* the compression stage to #zipStream.
PipeHuge(i, len, m) ==
  /\ pc[i] = "pipe"
  /\ wstate = "writable"
  /\ src[i] = "open"
  /\ loc[i].uncompressedSize = BigInt(0)
  /\ m \in HugeCompressedLens(opt[i].store, len)
  /\ loc' = [loc EXCEPT
               ![i].uncompressedSize = BigAdd(@, len),
               ![i].checksum = CrcRun(len, @)]
  /\ TransformChunk("data", i, m, FALSE)
  /\ UNCHANGED <<finalized, entries, cd, wstate, werr, wlock, mutexQ, pc, opt,
                 src, fin, result, nextId, lastCall>>
  /\ UNCHANGED probe

BigInputs == {PlainInput, [DeflateInput EXCEPT !.name = Str(1, 0, 0, 0)]}

EntryStepBig(i) ==
  \/ EntryStart(i)
  \/ EntryReady(i)
  \/ EntryHeader(i)
  \/ EntryHeaderReady(i)
  \/ \E m \in 0..1 : PipeChunk(i, <<1>>, m)
  \/ \E len \in HugeLens, m \in HugeLens \cup {BigInt(1)} : PipeHuge(i, len, m)
  \/ \E m \in 0..1 : PipeEnd(i, m)
  \/ EntryDescriptorStart(i)
  \/ EntryDescriptorReady(i)
  \/ EntryDescriptor(i)

NextBig ==
  \/ \E inp \in BigInputs : AddEntry(inp)
  \/ \E hasOverride \in BOOLEAN : Finalize(hasOverride)
  \/ \E i \in EntryIds : EntryStepBig(i) \/ SourceEnd(i)
  \/ FinalizeStep

SpecBig == Init /\ [][NextBig]_vars

\* The same, with a finalize() called without options.
NextBigPlain ==
  \/ \E inp \in BigInputs : AddEntry(inp)
  \/ Finalize(FALSE)
  \/ \E i \in EntryIds : EntryStepBig(i) \/ SourceEnd(i)
  \/ FinalizeStep

(***************************************************************************)
(* eocdNeedsZip64 and getEOCD on their own, at the limits that no archive  *)
(* of the model reaches (65535 entries, a directory of 2^32 - 1 bytes),    *)
(* next to the writer with long sources.                                   *)
(***************************************************************************)
\* The counts around 2^32 - 1 and the numbers of entries around 65535.
AroundLimit ==
  {BigInt(0), BigSub(ZIP64_LIMIT, BigInt(1)), ZIP64_LIMIT,
   BigAdd(ZIP64_LIMIT, BigInt(1))}
AroundMaxCount == {0, MAX_2_BYTE - 1, MAX_2_BYTE, MAX_2_BYTE + 1}

\* The eocdOptions to try, with no result yet.
EocdProbes ==
  {[f |-> "getEOCD", centralDirectoryStart |-> start,
    centralDirectorySize |-> size, entriesCount |-> count, applied |-> FALSE,
    zip64 |-> FALSE, byteLength |-> 0, eocd |-> <<>>] :
     start \in AroundLimit, size \in AroundLimit, count \in AroundMaxCount}

\* eocdNeedsZip64(eocdOptions) and getEOCD(eocdOptions).byteLength
ApplyGetEOCD ==
  /\ probe.f = "getEOCD"
  /\ ~probe.applied
  /\ probe' = [probe EXCEPT
                 !.applied = TRUE,
                 !.zip64 = EocdNeedsZip64(probe.centralDirectoryStart,
                                          probe.centralDirectorySize,
                                          probe.entriesCount),
                 !.byteLength = EOCDLen(probe.centralDirectoryStart,
                                        probe.centralDirectorySize,
                                        probe.entriesCount),
                 !.eocd = GetEOCD(probe.centralDirectoryStart,
                                  probe.centralDirectorySize,
                                  probe.entriesCount)]
  /\ UNCHANGED <<finalized, entries, offset, out, cd, wstate, werr, wlock,
                 mutexQ, pc, opt, src, loc, fin, result, nextId, lastCall>>

InitEocd == WriterInit /\ probe \in {NoProbe} \cup EocdProbes

NextEocd ==
  \/ probe.f = "none" /\ NextBigPlain
  \/ ApplyGetEOCD

SpecEocd == InitEocd /\ [][NextEocd]_vars

(***************************************************************************)
(* The promise-chain writer: the ZipWriter whose entries are made with     *)
(* createEntryStream and chained on the promise #queued, and whose         *)
(* finalize waits in onceQueueEmpty. #entryCount is nextId - 1; the mutex  *)
(* queue is not used. Its records are kept as the caller sees them.        *)
(***************************************************************************)
ChainInputs == {PlainInput, DeflateInput}

\* The lists a caller of this writer may pass as options.entries: records of
\* #entries in any order, with omissions and repetitions, the crc32 of the
\* first one changed or not.
ChainOverrides ==
  {[k \in 1..Len(idx) |->
      IF k = 1 /\ changed THEN OtherCrc(entries[idx[k]]) ELSE entries[idx[k]]] :
     idx \in UNION {[1..n -> 1..Len(entries)] : n \in 0..MaxOverride},
     changed \in BOOLEAN}

\* a > b
Gt(a, b) == ~Geq(b, a)

\* The promise #queued made by the i-th createEntryStream call (0: the
\* initial Promise.resolve()): entryDone resolves it, entryError rejects it,
\* and it stays pending when the callback threw before its try block.
QueuedState(i) ==
  IF i = 0 THEN "resolved"
  ELSE IF pc[i] = "done" THEN result[i].st
  ELSE "pending"
QueuedError(i) == IF i = 0 THEN NoError ELSE result[i].err

\* createEntryStream: the synchronous part.
CreateEntryStream(inp) ==
  IF finalized
  THEN Throw("addEntry", "TypeError")
  ELSE /\ nextId <= MaxEntries
       /\ opt' = [opt EXCEPT ![nextId] =
                    [name |-> inp.name, comment |-> inp.comment,
                     mode |-> inp.mode, store |-> inp.store,
                     date |-> inp.date, nameBytes |-> TextEncode(inp.name),
                     commentBytes |-> EncodeOptional(inp.comment)]]
       /\ src' = [src EXCEPT ![nextId] = "open"]
       /\ pc' = [pc EXCEPT ![nextId] = "queued"]
       /\ result' = [result EXCEPT ![nextId] = Pending]
       /\ nextId' = nextId + 1
       /\ lastCall' = [lastCall EXCEPT !.addEntry = "ok"]
       /\ UNCHANGED <<finalized, entries, offset, out, cd, wstate, werr,
                      wlock, mutexQ, loc, fin>>
       /\ UNCHANGED probe

\* The callback throws before its try block: its promise rejects, entryError
\* is not called and the lock it may hold is not its own.
ChainThrow(p, err) ==
  /\ result' = [result EXCEPT ![p] = [st |-> "rejected", err |-> err]]
  /\ pc' = [pc EXCEPT ![p] = "threw"]

\* The catch and finally blocks of the callback: entryError(err), the source
\* is cancelled, the abort of the locked stream does nothing, the locks are
\* released.
ChainEntryFailed(i, err) ==
  /\ Cancel(i)
  /\ wlock' = NoOwner
  /\ Settle(i, "rejected", err)
  /\ UNCHANGED <<finalized, entries, offset, out, cd, wstate, werr, opt, loc,
                 fin, nextId, lastCall>>

\* `await prevQueued; writer = getWriter(); ... writeZipEntry({...,
\* startOffset: this.#offset})`, whose first statement writes the header.
ChainEntryStart(i) ==
  /\ pc[i] = "queued"
  /\ QueuedState(i - 1) # "pending"
  /\ IF QueuedState(i - 1) = "rejected" \/ wlock # NoOwner
     THEN /\ ChainThrow(i, IF QueuedState(i - 1) = "rejected"
                           THEN QueuedError(i - 1) ELSE LockedError)
          /\ UNCHANGED <<finalized, entries, offset, out, cd, wstate, werr,
                         wlock, mutexQ, opt, src, loc, fin, nextId, lastCall>>
     ELSE IF wstate = "errored"
     THEN ChainEntryFailed(i, werr)
     ELSE /\ wlock' = i
          /\ loc' = [loc EXCEPT ![i].startOffset = offset]
          /\ Transform("lfh", i, LocalFileHeaderLen(opt[i]))
          /\ pc' = [pc EXCEPT ![i] = "pipe"]
          /\ UNCHANGED <<finalized, entries, cd, wstate, werr, mutexQ, opt,
                         src, fin, result, nextId, lastCall>>
  /\ UNCHANGED probe

\* One turn of the read loop of writeZipEntry: a chunk is read, counted,
\* and what the compression stage makes of it is written.
ChainPipeChunk(i, chunk, m) ==
  /\ pc[i] = "pipe"
  /\ src[i] = "open"
  /\ loc[i].uncompressedSize.lo + Len(chunk) <= MaxPayload
  /\ m \in CompressedLens(opt[i].store, Len(chunk))
  /\ IF wstate = "errored"
     THEN ChainEntryFailed(i, werr)
     ELSE /\ loc' = [loc EXCEPT
                       ![i].uncompressedSize = BigAdd(@, BigInt(Len(chunk))),
                       ![i].compressedSize = BigAdd(@, BigInt(m)),
                       ![i].checksum = Crc32(chunk, @)]
          /\ IF m > 0 THEN Transform("data", i, m) ELSE UNCHANGED <<out, offset>>
          /\ UNCHANGED <<finalized, entries, cd, wstate, werr, wlock, mutexQ,
                         pc, opt, src, fin, result, nextId, lastCall>>
  /\ UNCHANGED probe

\* The source is done: the compression stage is flushed.
ChainPipeEnd(i, m) ==
  /\ pc[i] = "pipe"
  /\ src[i] = "ended"
  /\ m \in FlushLens(opt[i].store)
  /\ IF wstate = "errored"
     THEN ChainEntryFailed(i, werr)
     ELSE /\ loc' = [loc EXCEPT ![i].compressedSize = BigAdd(@, BigInt(m))]
          /\ IF m > 0 THEN Transform("data", i, m) ELSE UNCHANGED <<out, offset>>
          /\ pc' = [pc EXCEPT ![i] = "descriptor"]
          /\ UNCHANGED <<finalized, entries, cd, wstate, werr, wlock, mutexQ,
                         opt, src, fin, result, nextId, lastCall>>
  /\ UNCHANGED probe

\* reader.read() rejects with the error of the source.
ChainPipeSourceError(i) ==
  /\ pc[i] = "pipe"
  /\ src[i] = "errored"
  /\ ChainEntryFailed(i, SourceError(i))
  /\ UNCHANGED probe

\* The record writeZipEntry returns: numbers unless the entry is ZIP64, which
\* this writer decides with a strict comparison.
ChainEntryInfo(i) ==
  LET needsZip64 == \/ Gt(loc[i].uncompressedSize, ZIP64_LIMIT)
                    \/ Gt(loc[i].compressedSize, ZIP64_LIMIT)
                    \/ Gt(loc[i].startOffset, ZIP64_LIMIT)
  IN  GetPublicEntryInfo(
        [id |-> i, name |-> opt[i].name, comment |-> opt[i].comment,
         mode |-> opt[i].mode, store |-> opt[i].store, date |-> opt[i].date,
         startOffset |-> loc[i].startOffset, crc32 |-> loc[i].checksum,
         uncompressedSize |-> loc[i].uncompressedSize,
         compressedSize |-> loc[i].compressedSize, zip64 |-> needsZip64])

\* getDataDescriptorZip64 / getDataDescriptorStandard, by length.
ChainDataDescriptorLen(e) ==
  IF e.zip64 THEN DATA_DESCRIPTOR_SIZE_ZIP64 ELSE DATA_DESCRIPTOR_SIZE

\* The data descriptor is written, the record pushed, entryDone() called.
ChainEntryDescriptor(i) ==
  /\ pc[i] = "descriptor"
  /\ IF wstate = "errored"
     THEN ChainEntryFailed(i, werr)
     ELSE /\ TransformChunk("dd", i,
                             BigInt(ChainDataDescriptorLen(ChainEntryInfo(i))),
                             ChainEntryInfo(i).zip64)
          /\ entries' = Append(entries, ChainEntryInfo(i))
          /\ wlock' = NoOwner
          /\ Settle(i, "resolved", NoError)
          /\ UNCHANGED <<finalized, cd, wstate, werr, opt, src, loc, fin,
                         nextId, lastCall>>
  /\ UNCHANGED probe

\* The checks of #setEntries of this writer: the records are compared as
\* they are, without conversion.
ChainExisting(x) ==
  {k \in 1..Len(entries) :
     ToBigInt(entries[k].startOffset) = ToBigInt(x.startOffset)}
ChainCheckEntry(x) ==
  LET existingEntry ==
        entries[CHOOSE k \in ChainExisting(x) : \A j \in ChainExisting(x) : j <= k]
  IN  IF ChainExisting(x) = {} THEN 1
      ELSE IF existingEntry.crc32 # x.crc32 THEN 2
      ELSE IF ~StrictEq(existingEntry.uncompressedSize, x.uncompressedSize) THEN 3
      ELSE IF ~StrictEq(existingEntry.compressedSize, x.compressedSize) THEN 4
      ELSE 0
RECURSIVE ChainCheckEntries(_)
ChainCheckEntries(list) ==
  IF list = <<>> THEN 0
  ELSE IF ChainCheckEntry(Head(list)) # 0 THEN ChainCheckEntry(Head(list))
  ELSE ChainCheckEntries(Tail(list))

\* finalize of this writer: the flag is set and the list, when one is given,
\* replaces #entries at once, before the queue is waited for. The function
\* is async: what it throws rejects the promise it returns.
ChainFinalize(hasOverride, list) ==
  IF finalized
  THEN Throw("finalize", "TypeError")
  ELSE /\ finalized' = TRUE
       /\ lastCall' = [lastCall EXCEPT !.finalize = "ok"]
       /\ IF hasOverride /\ ChainCheckEntries(list) # 0
          THEN /\ result' = [result EXCEPT ![FIN] =
                               [st |-> "rejected",
                                err |-> SetEntriesError(ChainCheckEntries(list))]]
               /\ pc' = [pc EXCEPT ![FIN] = "done"]
               /\ UNCHANGED <<entries, fin>>
          ELSE /\ entries' = IF hasOverride THEN list ELSE entries
               /\ fin' = [fin EXCEPT !.hasOverride = hasOverride, !.list = list]
               /\ pc' = [pc EXCEPT ![FIN] = "wait"]
               /\ result' = [result EXCEPT ![FIN] = Pending]
       /\ UNCHANGED <<offset, out, cd, wstate, werr, wlock, mutexQ, opt, src,
                      loc, nextId>>
       /\ UNCHANGED probe

\* One test of the loop of onceQueueEmpty, `while (this.#entries.length <
\* this.#entryCount) await this.#queued`: when the test fails finalize goes
\* on (centralDirectoryStart, getWriter, both outside the try block); when
\* it holds the loop waits for #queued, the promise of the last entry made,
\* and tests again once that promise is resolved.
OnceQueueEmpty ==
  /\ pc[FIN] = "wait"
  /\ IF Len(entries) < nextId - 1
     THEN /\ QueuedState(nextId - 1) # "pending"
          /\ IF QueuedState(nextId - 1) = "rejected"
             THEN /\ Settle(FIN, "rejected", QueuedError(nextId - 1))
                  /\ UNCHANGED <<finalized, entries, offset, out, cd, wstate,
                                 werr, wlock, opt, src, loc, fin, nextId,
                                 lastCall>>
             ELSE UNCHANGED <<finalized, entries, offset, out, cd, wstate, werr,
                              wlock, mutexQ, pc, opt, src, loc, fin, result,
                              nextId, lastCall>>
     ELSE /\ IF wlock # NoOwner
             THEN /\ ChainThrow(FIN, LockedError)
                  /\ UNCHANGED <<wlock, fin>>
             ELSE /\ wlock' = FIN
                  /\ fin' = [fin EXCEPT !.centralDirectoryStart = offset,
                                        !.next = 1]
                  /\ pc' = [pc EXCEPT ![FIN] = "directory"]
                  /\ UNCHANGED <<result>>
          /\ UNCHANGED <<finalized, entries, offset, out, cd, wstate, werr,
                         mutexQ, opt, src, loc, nextId, lastCall>>
  /\ UNCHANGED probe

\* getCDFH(entry).byteLength for a record as the caller sees it.
ChainCDFHLen(e) ==
  CENTRAL_DIRECTORY_HEADER_SIZE + TextEncode(e.name) + EncodeOptional(e.comment)
    + (IF e.zip64 THEN ZIP64_EXTRA_SIZE ELSE 0)

\* One turn of the loop: `await writer.write(getCDFH(entry))`.
ChainFinalizeCDFH ==
  /\ pc[FIN] = "directory"
  /\ fin.next <= Len(entries)
  /\ IF wstate = "errored"
     THEN FinalizeFailed
     ELSE /\ TransformChunk("cdfh", FIN,
                             BigInt(ChainCDFHLen(entries[fin.next])),
                             entries[fin.next].zip64)
          /\ cd' = Append(cd, entries[fin.next])
          /\ fin' = [fin EXCEPT
                       !.next = @ + 1,
                       !.entryUsesZip64 = @ \/ entries[fin.next].zip64,
                       !.uncompressedEntriesSize =
                          BigAdd(@, ToBigInt(entries[fin.next].uncompressedSize)),
                       !.compressedEntriesSize =
                          BigAdd(@, ToBigInt(entries[fin.next].compressedSize))]
          /\ UNCHANGED <<finalized, entries, wstate, werr, wlock, mutexQ, pc,
                         opt, src, loc, result, nextId, lastCall>>
  /\ UNCHANGED probe

\* `const eocdNeedsZip64 = this.#entries.length > 0xffff ||
\* centralDirectoryStart > ZIP64_LIMIT || centralDirectorySize > ZIP64_LIMIT`
ChainEocdNeedsZip64(centralDirectoryStart, centralDirectorySize, entriesCount) ==
  \/ entriesCount > MAX_2_BYTE
  \/ Gt(centralDirectoryStart, ZIP64_LIMIT)
  \/ Gt(centralDirectorySize, ZIP64_LIMIT)

\* The end record is written.
ChainFinalizeEOCD ==
  /\ pc[FIN] = "directory"
  /\ fin.next > Len(entries)
  /\ IF wstate = "errored"
     THEN FinalizeFailed
     ELSE /\ TransformChunk(
               "eocd", FIN,
               BigInt(IF ChainEocdNeedsZip64(
                           fin.centralDirectoryStart,
                           BigSub(offset, fin.centralDirectoryStart),
                           Len(entries))
                      THEN EOCD64_SIZE + EOCD64_LOCATOR_SIZE + EOCD_SIZE
                      ELSE EOCD_SIZE),
               ChainEocdNeedsZip64(fin.centralDirectoryStart,
                                   BigSub(offset, fin.centralDirectoryStart),
                                   Len(entries)))
          /\ fin' = [fin EXCEPT !.centralDirectorySize =
                                     BigSub(offset, fin.centralDirectoryStart)]
          /\ pc' = [pc EXCEPT ![FIN] = "close"]
          /\ UNCHANGED <<finalized, entries, cd, wstate, werr, wlock, mutexQ,
                         opt, src, loc, result, nextId, lastCall>>
  /\ UNCHANGED probe

\* `await writer.close()`, then the summary is returned, in bigints.
ChainFinalizeClose ==
  /\ pc[FIN] = "close"
  /\ IF wstate = "errored"
     THEN FinalizeFailed
     ELSE /\ wstate' = "closed"
          /\ wlock' = NoOwner
          /\ Settle(FIN, "resolved", NoError)
          /\ fin' = [fin EXCEPT !.summary =
                       [def |-> TRUE,
                        zip64 |-> ChainEocdNeedsZip64(fin.centralDirectoryStart,
                                                      fin.centralDirectorySize,
                                                      Len(entries))
                                    \/ fin.entryUsesZip64,
                        uncompressedEntriesSize |-> fin.uncompressedEntriesSize,
                        compressedEntriesSize |-> fin.compressedEntriesSize,
                        fileSize |-> offset]]
          /\ UNCHANGED <<finalized, entries, offset, out, cd, werr, opt, src,
                         loc, nextId, lastCall>>
  /\ UNCHANGED probe

ChainEntryStep(i) ==
  \/ ChainEntryStart(i)
  \/ \E m \in 0..1 : ChainPipeChunk(i, <<1>>, m)
  \/ \E m \in 0..1 : ChainPipeEnd(i, m)
  \/ ChainPipeSourceError(i)
  \/ ChainEntryDescriptor(i)

ChainFinalizeStep ==
  \/ OnceQueueEmpty
  \/ ChainFinalizeCDFH
  \/ ChainFinalizeEOCD
  \/ ChainFinalizeClose

NextChain ==
  \/ \E inp \in ChainInputs : CreateEntryStream(inp)
  \/ \E list \in ChainOverrides : ChainFinalize(TRUE, list)
  \/ ChainFinalize(FALSE, <<>>)
  \/ \E i \in EntryIds : ChainEntryStep(i) \/ SourceEnd(i) \/ SourceFail(i)
  \/ ChainFinalizeStep
  \/ SinkFail

SpecChain == Init /\ [][NextChain]_vars

\* The callbacks go on as soon as what they wait for has settled (the job
\* queue of the engine runs every job), and a source that is open will end
\* or fail.
SpecChainFair ==
  /\ SpecChain
  /\ WF_vars(ChainFinalizeStep)
  /\ \A i \in EntryIds : WF_vars(ChainEntryStep(i)) /\ WF_vars(SourceEnd(i) \/ SourceFail(i))

(***************************************************************************)
(* Properties.                                                             *)
(***************************************************************************)
\* The positions of the output that hold records of kind k.
Positions(k) == {a \in 1..Len(out) : out[a].k = k}

\* finalize has replaced #entries by the list it was given.
OverrideApplied ==
  /\ fin.hasOverride
  /\ \/ pc[FIN] \in {"ready", "directory", "close"}
     \/ pc[FIN] = "done" /\ result[FIN].err.kind # "setEntries"

\* C1: the local file headers are in the output in the order of the addEntry
\* calls (the calls are numbered in call order), and the entry list built by
\* addEntry holds the records in that same order, however the sources of the
\* entries progress and end.
C1_SubmissionOrder ==
  /\ \A a, b \in Positions("lfh") : a < b => out[a].e < out[b].e
  /\ ~OverrideApplied =>
       \A a, b \in 1..Len(entries) : a < b => entries[a].id < entries[b].id

\* The source of the second call has ended while the first call, whose header
\* is in the output, still waits for its own source: the second call waits.
C1_Witness ==
  /\ pc[1] = "pipe"
  /\ src[1] = "open"
  /\ src[2] = "ended"
  /\ pc[2] = "queued"
  /\ Positions("lfh") # {}

\* The calls whose callback is between taking its first writer and settling.
Writing == {p \in Procs : pc[p] \notin {"idle", "queued", "done"}}

\* C2: at most one callback (of addEntry or of finalize) writes at a time, and
\* the bytes of each entry (local header, payload, data descriptor, in that
\* order) are one contiguous run of the output, with no byte of another entry
\* or of the central directory in between.
C2_OneWriterContiguous ==
  /\ Cardinality(Writing) <= 1
  /\ \A a, c \in 1..Len(out) :
       (a < c /\ out[a].e = out[c].e) => \A b \in a..c : out[b].e = out[a].e
  /\ \A a \in 1..Len(out) :
       /\ out[a].k = "data" =>
            a > 1 /\ out[a - 1].e = out[a].e /\ out[a - 1].k = "lfh"
       /\ out[a].k = "dd" =>
            a > 1 /\ out[a - 1].e = out[a].e /\ out[a - 1].k \in {"lfh", "data"}

\* The first entry is complete and the second writes its payload while
\* finalize waits for the lock.
C2_Witness ==
  /\ pc[2] = "pipe"
  /\ pc[FIN] = "queued"
  /\ Len(out) = 5
  /\ out[3].k = "dd"
  /\ out[5].k = "data"

\* The number of bytes of the first k chunks of the output.
RECURSIVE OutBytes(_)
OutBytes(k) == IF k = 0 THEN BigInt(0) ELSE BigAdd(OutBytes(k - 1), out[k].n)

\* The record's startOffset is the number of bytes handed to the output
\* before the local header of its entry.
StartsAtHeader(e) ==
  \E a \in Positions("lfh") : out[a].e = e.id /\ e.startOffset = OutBytes(a - 1)

\* The startOffsets of the entry list grow strictly along the list.
StartOffsetsIncrease ==
  \A a, b \in 1..Len(entries) :
    a < b => ~Geq(entries[a].startOffset, entries[b].startOffset)

\* C3 (as amended): in every reachable state the startOffset of each record of
\* the entry list is the number of bytes handed to the output before that
\* entry's local header, and the startOffsets are strictly increasing in list
\* order as long as finalize has not replaced the list by an override.
C3_StartOffsets ==
  /\ \A k \in 1..Len(entries) : StartsAtHeader(entries[k])
  /\ ~OverrideApplied => StartOffsetsIncrease

\* Two entries are written, the second one after the bytes of the first.
C3_Witness ==
  /\ Len(entries) = 2
  /\ ~OverrideApplied
  /\ entries[1].startOffset = BigInt(0)
  /\ entries[2].startOffset.lo > LOCAL_FILE_HEADER_SIZE

\* C3 (as stated): in every reachable state the startOffsets of the entry list
\* are strictly increasing in list order and each is the number of bytes
\* handed to the output before that entry's local header.
C3_AlwaysIncreasing ==
  /\ \A k \in 1..Len(entries) : StartsAtHeader(entries[k])
  /\ StartOffsetsIncrease

\* The accepted addEntry calls, and those whose data descriptor is written.
Submitted == 1..(nextId - 1)
HasDescriptor(i) == \E a \in Positions("dd") : out[a].e = i

\* C4: no byte of the central directory (header or end record) is in the
\* output before the data descriptor of every addEntry submitted before
\* finalize; and when finalize, given no override, resolves, every submitted
\* entry has succeeded and the central directory holds exactly one header per
\* entry, in submission order.
C4_DirectoryAfterEntries ==
  /\ Positions("cdfh") \cup Positions("eocd") # {} =>
       \A i \in Submitted : HasDescriptor(i)
  /\ (~fin.hasOverride /\ result[FIN].st = "resolved") =>
       /\ Len(cd) = nextId - 1
       /\ \A k \in 1..Len(cd) : cd[k].id = k /\ result[k].st = "resolved"
       /\ Cardinality(Positions("cdfh")) = Len(cd)

\* finalize, given no override, has resolved after two entries.
C4_Witness ==
  /\ ~fin.hasOverride
  /\ result[FIN].st = "resolved"
  /\ Len(cd) = 2

\* The step is the synchronous part of an addEntry call, of a finalize call.
AddEntryCall == \E inp \in EntryInputs : AddEntry(inp)
FinalizeCall == \E hasOverride \in BOOLEAN : Finalize(hasOverride)

\* All of the state but the record of the last call's outcome.
allButLastCall ==
  <<finalized, entries, offset, out, cd, wstate, werr, wlock, mutexQ, pc, opt,
    src, loc, fin, result, nextId, probe>>

\* The output stream is closed without error after one end record, which is
\* the last chunk of the output.
ClosedNormally ==
  /\ wstate = "closed"
  /\ werr = NoError
  /\ Cardinality(Positions("eocd")) = 1
  /\ out[Len(out)].k = "eocd"

\* C5: once finalize() has been called, even while it still waits for the
\* lock or writes, every addEntry call throws synchronously (a TypeError): it
\* writes nothing, adds nothing to the entry list, leaves the output stream
\* and the pending finalize as they are; and a finalize that resolves has
\* closed the output normally, whatever addEntry calls were made meanwhile.
C5_NoEntryAfterFinalize ==
  /\ [][(finalized /\ AddEntryCall) =>
          (lastCall'.addEntry = "TypeError"
           /\ UNCHANGED allButLastCall)]_vars
  /\ [](result[FIN].st = "resolved" => ClosedNormally)

\* addEntry has thrown while finalize waits for the first entry to end.
C5_Witness ==
  /\ lastCall.addEntry = "TypeError"
  /\ pc[FIN] = "queued"
  /\ pc[1] = "pipe"

\* The central directory is written once: no entry has two headers in it and
\* the output holds one end record at most.
DirectoryOnce ==
  /\ Cardinality(Positions("eocd")) <= 1
  /\ Cardinality(Positions("cdfh")) = Len(cd)
  /\ Len(cd) <= Len(entries)

\* C6: a second finalize() call throws synchronously (a TypeError) and leaves
\* the first call as it is: the central directory and the end record are
\* written once, and the first call, when it resolves, has closed the output
\* without error.
C6_FinalizeOnce ==
  /\ [][(finalized /\ FinalizeCall) =>
          (lastCall'.finalize = "TypeError"
           /\ UNCHANGED allButLastCall)]_vars
  /\ [](DirectoryOnce /\ (result[FIN].st = "resolved" => ClosedNormally))

\* finalize has been called again, and the first call has resolved.
C6_Witness ==
  /\ lastCall.finalize = "TypeError"
  /\ result[FIN].st = "resolved"
  /\ ClosedNormally
  /\ Len(cd) = 2

\* The invalid options of the specification: a name or a comment of more than
\* 65535 encoded bytes, or a mode that is given and is not an integer of
\* 0..65535.
InvalidOptions(inp) ==
  \/ TextEncode(inp.name) > MAX_2_BYTE
  \/ inp.comment.def /\ TextEncode(inp.comment) > MAX_2_BYTE
  \/ inp.mode.t # "undefined" /\ ~(inp.mode.t = "int" /\ inp.mode.v \in 0..MAX_2_BYTE)

\* The call throws a RangeError before it takes the lock.
RangeErrorThrown ==
  /\ lastCall'.addEntry = "RangeError"
  /\ mutexQ' = mutexQ
  /\ pc' = pc

\* C7 (as amended): on a writer whose finalize() has not been called, addEntry
\* throws a RangeError synchronously, before it takes the lock, exactly when
\* the encoded name is longer than 65535 bytes, or the encoded comment is, or
\* a mode is given that is not an integer of 0..65535 (a name of 65535 bytes
\* is accepted, one of 65536 refused); once finalize() has been called these
\* options are refused too, with the TypeError of a finalized writer.
C7_RangeErrorIff ==
  [][\A inp \in EntryInputs :
       \/ /\ ~finalized => (RangeErrorThrown <=> InvalidOptions(inp))
          /\ ~finalized => (lastCall'.addEntry = "RangeError" => RangeErrorThrown)
          /\ finalized => lastCall'.addEntry = "TypeError"
       \/ ~AddEntry(inp)]_vars

\* A name of 65535 bytes was accepted by the first call, and a later call was
\* refused with a RangeError.
C7_Witness ==
  /\ ~finalized
  /\ lastCall.addEntry = "RangeError"
  /\ nextId = 2
  /\ opt[1].nameBytes = MAX_2_BYTE

\* C7 (as stated): addEntry throws a RangeError synchronously, before it takes
\* the lock, exactly when the options are invalid.
C7_AlwaysRangeError ==
  [][\A inp \in EntryInputs :
       (RangeErrorThrown <=> InvalidOptions(inp)) \/ ~AddEntry(inp)]_vars

\* The archive is complete: the output is closed normally and the central
\* directory has one header for each accepted addEntry call, in call order.
CompleteArchive ==
  /\ ClosedNormally
  /\ Len(cd) = nextId - 1
  /\ \A k \in 1..Len(cd) : cd[k].id = k /\ HasDescriptor(k)

\* C8: an addEntry call refused for invalid options changes nothing: it writes
\* no byte, leaves the offset, the entry list, the finalized flag, the lock
\* and the output stream as they are; and a finalize without override that
\* resolves after such a call has produced a complete archive.
C8_RefusedChangesNothing ==
  /\ [][(lastCall'.addEntry = "RangeError" /\ AddEntryCall) =>
          UNCHANGED allButLastCall]_vars
  /\ []((lastCall.addEntry = "RangeError" /\ ~fin.hasOverride
         /\ result[FIN].st = "resolved") => CompleteArchive)

\* The last addEntry call was refused for its options after one entry was
\* accepted, and the finalize called afterwards has resolved.
C8_Witness ==
  /\ lastCall.addEntry = "RangeError"
  /\ result[FIN].st = "resolved"
  /\ ~fin.hasOverride
  /\ CompleteArchive
  /\ Len(cd) = 1

\* A date outside of what an MS-DOS date holds: 1980-01-01 to 2107-12-31.
OutOfDosRange(date) ==
  date.def /\ (date.y < DOS_EPOCH_YEAR \/ date.y > DOS_EPOCH_YEAR + 127)

\* C9: an addEntry call (on a writer that is not finalized) whose date is
\* outside the MS-DOS range 1980-01-01..2107-12-31 fails synchronously with
\* the error of invalid options.
C9_DateRefused ==
  [][\A inp \in EntryInputs :
       \/ (~finalized /\ OutOfDosRange(inp.date)) => RangeErrorThrown
       \/ ~AddEntry(inp)]_vars

\* An entry dated 1979-12-31 was accepted and its local header is written;
\* the date field of the header reads as 2107-12-31.
C9_Witness ==
  /\ nextId > 1
  /\ opt[1].date = Date(1979, 12, 31)
  /\ \E a \in Positions("lfh") : out[a].e = 1
  /\ GetDosDate(DateOrNow(opt[1].date)) = (127 * 512) + (12 * 32) + 31

\* The value of a byte count, be it a number or a bigint.
ValueOf(n) == <<n.hi, n.lo>>

\* The errors the specification tells for a record of an override: 1 when no
\* written entry starts at its startOffset, else 2, 3, 4 when its crc32, its
\* uncompressedSize, its compressedSize differ from those of the entry written
\* there.
ExpectedErrors(x) ==
  IF \A k \in 1..Len(entries) : ValueOf(entries[k].startOffset) # ValueOf(x.startOffset)
  THEN {1}
  ELSE UNION {
         (IF entries[k].crc32 # x.crc32 THEN {2} ELSE {})
         \cup (IF ValueOf(entries[k].uncompressedSize) # ValueOf(x.uncompressedSize)
               THEN {3} ELSE {})
         \cup (IF ValueOf(entries[k].compressedSize) # ValueOf(x.compressedSize)
               THEN {4} ELSE {}) :
         k \in {j \in 1..Len(entries) :
                  ValueOf(entries[j].startOffset) = ValueOf(x.startOffset)}}

BadOverride(list) == \E k \in 1..Len(list) : ExpectedErrors(list[k]) # {}

\* The errors expected for the records of a list.
ExpectedOfList(list) == UNION {ExpectedErrors(list[k]) : k \in 1..Len(list)}

\* No byte of the central directory is in the output.
NoDirectory == Positions("cdfh") \cup Positions("eocd") = {}

\* The step on which finalize, given an override, is granted the lock and
\* reads the list.
OverrideRead == pc[FIN] = "queued" /\ pc'[FIN] # "queued" /\ fin.hasOverride

\* C10 (as amended): when finalize is given an override with a record whose
\* startOffset matches no written entry, or whose crc32, uncompressedSize or
\* compressedSize differs from the written entry's, finalize rejects with that
\* error and no byte of the central directory is written; the output stream
\* ends errored, with that same error when it was not errored before, and
\* with the error of the earlier failure when it was. In the formula: the
\* error thrown for such a list is the one expected of one of its records; a
\* list that finalize accepts (it becomes the entry list) has no such record;
\* and a finalize that rejects a list leaves the output, the directory and
\* the entry list as they are and the stream errored as said.
C10_BadOverrideRejected ==
  /\ []((pc[FIN] = "queued" /\ HoldsMutex(FIN) /\ fin.hasOverride) =>
          \A list \in Overrides :
            BadOverride(list) => CheckEntries(list) \in ExpectedOfList(list))
  /\ [][OverrideRead =>
          IF result'[FIN].err.kind = "setEntries"
          THEN /\ result'[FIN].st = "rejected"
               /\ out' = out
               /\ cd' = cd
               /\ entries' = entries
               /\ wstate' = "errored"
               /\ werr' = IF wstate = "writable" THEN result'[FIN].err ELSE werr
          ELSE \A k \in 1..Len(entries') : ExpectedErrors(entries'[k]) = {}]_vars
  /\ [](result[FIN].err.kind = "setEntries" => (NoDirectory /\ wstate = "errored"))

\* finalize has rejected an override whose record has another crc32, and the
\* output stream is errored with the error of finalize.
C10_Witness ==
  /\ result[FIN] = [st |-> "rejected", err |-> SetEntriesError(2)]
  /\ wstate = "errored"
  /\ werr = SetEntriesError(2)
  /\ Len(entries) = 2
  /\ NoDirectory

\* C10 (as stated): when finalize rejects such an override, no byte of the
\* central directory is written and the output stream is aborted with the
\* same error as finalize rejects with.
C10_SameErrorAlways ==
  result[FIN].err.kind = "setEntries" =>
    (NoDirectory /\ wstate = "errored" /\ werr = result[FIN].err)

\* The addEntry call whose entry was written at the startOffset of record x,
\* and the zip64 flag addEntry gave that entry.
WrittenAt(x) ==
  {i \in EntryIds : result[i].st = "resolved"
                    /\ loc[i].startOffset = ToBigInt(x.startOffset)}
FlagChanged(x) == \E i \in WrittenAt(x) : x.zip64 # EntryInfoOf(i).zip64

\* C11: finalize, given an override that changes the zip64 flag of a written
\* entry, fails before any byte of the central directory is written: no
\* record whose zip64 flag differs from the one addEntry gave the entry at
\* its startOffset ever becomes part of the entry list or gets a
\* central-directory header.
C11_Zip64ChangeRejected ==
  /\ \A k \in 1..Len(entries) : ~FlagChanged(entries[k])
  /\ \A k \in 1..Len(cd) : ~FlagChanged(cd[k])

\* finalize has resolved with an override that sets the zip64 flag of a small
\* entry: its central-directory header is in the output, in the ZIP64 form.
C11_Witness ==
  /\ result[FIN].st = "resolved"
  /\ fin.hasOverride
  /\ Len(cd) = 1
  /\ cd[1].zip64
  /\ ~EntryNeedsZip64(cd[1].uncompressedSize, cd[1].compressedSize,
                      cd[1].startOffset)
  /\ \E a \in Positions("cdfh") :
       out[a].n = BigInt(CENTRAL_DIRECTORY_HEADER_SIZE + cd[1].nameBytes
                           + cd[1].commentBytes + ZIP64_EXTRA_SIZE)

\* finalize was given an override and has resolved.
OverrideDone == fin.hasOverride /\ result[FIN].st = "resolved"

\* The position of the output before the first central-directory header of a
\* finished archive: the headers and the end record are its last chunks.
DirectoryBase == Len(out) - 1 - Len(cd)

\* C12: when finalize succeeds with an override, the central directory holds
\* exactly the records of the override, in the order of the override: as many
\* headers as the list has records, the k-th one encoding the name and the
\* comment of the k-th record of the list, with the startOffset, crc32 and
\* sizes of the entry written at that startOffset; a written entry that the
\* list leaves out has no header; and the directory starts after the bytes
\* (local header, payload, data descriptor) of all the written entries.
C12_OverrideDirectory ==
  OverrideDone =>
    /\ Len(cd) = Len(fin.list)
    /\ Cardinality(Positions("cdfh")) = Len(fin.list)
    /\ \A k \in 1..Len(fin.list) :
         /\ cd[k].name = fin.list[k].name
         /\ cd[k].comment = fin.list[k].comment
         /\ out[DirectoryBase + k].k = "cdfh"
         /\ out[DirectoryBase + k].n =
              BigInt(CENTRAL_DIRECTORY_HEADER_SIZE + TextEncode(fin.list[k].name)
                       + EncodeOptional(fin.list[k].comment)
                       + (IF fin.list[k].zip64 THEN ZIP64_EXTRA_SIZE ELSE 0))
         /\ \E i \in WrittenAt(fin.list[k]) :
              /\ cd[k].startOffset = loc[i].startOffset
              /\ cd[k].crc32 = loc[i].checksum
              /\ cd[k].uncompressedSize = loc[i].uncompressedSize
              /\ cd[k].compressedSize = loc[i].compressedSize
    /\ \A i \in EntryIds :
         (\A k \in 1..Len(fin.list) : i \notin WrittenAt(fin.list[k])) =>
           \A k \in 1..Len(cd) : cd[k].startOffset # loc[i].startOffset
                                   \/ result[i].st # "resolved"
    /\ \A a \in 1..DirectoryBase : out[a].k \in {"lfh", "data", "dd"}
    /\ \A i \in Submitted : HasDescriptor(i)
    /\ fin.centralDirectoryStart = OutBytes(DirectoryBase)

\* Two entries are written and finalize has resolved with an override that
\* holds the second entry only, under another name and with a comment.
C12_Witness ==
  /\ OverrideDone
  /\ Cardinality({i \in EntryIds : result[i].st = "resolved"}) = 2
  /\ Len(fin.list) = 1
  /\ fin.list[1].name = Str(2, 0, 0, 0)
  /\ fin.list[1].name # opt[2].name
  /\ ToBigInt(fin.list[1].startOffset) = loc[2].startOffset
  /\ Cardinality(Positions("cdfh")) = 1

\* The addEntry calls whose entry is written.
Written == {i \in EntryIds : result[i].st = "resolved"}

\* C13: every override list that finalize accepts is a permutation or a
\* sub-sequence of the entry list: no two records of it have the startOffset
\* of the same written entry, and the central directory never has more
\* headers than entries were written.
C13_NoRepetition ==
  /\ \A a, b \in 1..Len(fin.list) :
       a # b => ToBigInt(fin.list[a].startOffset)
                  # ToBigInt(fin.list[b].startOffset)
  /\ Cardinality(Positions("cdfh")) <= Cardinality(Written)

\* One entry is written and finalize has resolved with a list holding its
\* record twice: the closed archive has two headers for the one entry.
C13_Witness ==
  /\ result[FIN].st = "resolved"
  /\ wstate = "closed"
  /\ Cardinality(Written) = 1
  /\ Len(fin.list) = 2
  /\ fin.list[1] = fin.list[2]
  /\ Cardinality(Positions("cdfh")) = 2

\* The list finalize was given and accepted leaves out a written entry.
LeavesOut ==
  /\ fin.hasOverride
  /\ \E i \in Written : \A k \in 1..Len(fin.list) : i \notin WrittenAt(fin.list[k])

\* The mutex-based writer with its scheduling: a callback goes on as soon as
\* what it waits for has settled, and a source that is open ends or fails.
SpecFair ==
  /\ Spec
  /\ WF_vars(FinalizeStep)
  /\ \A i \in EntryIds : WF_vars(EntryStep(i)) /\ WF_vars(SourceEnd(i) \/ SourceFail(i))

\* The mutex-based writer: a finalize that has accepted, on a stream without
\* error, a list that leaves out a written entry resolves in the end, with
\* the output closed.
MutexOverrideTerminates ==
  (LeavesOut /\ pc[FIN] = "ready" /\ wstate = "writable")
    ~> (result[FIN].st = "resolved" /\ wstate = "closed")

\* C14: finalize called with an override that leaves out at least one written
\* entry terminates: once every entry made is written and the list is
\* accepted, finalize writes the directory and the end record, closes the
\* output and resolves, unless the consumer of the output fails meanwhile.
\* Stated here of the promise-chain writer, whose finalize waits in
\* onceQueueEmpty.
C14_OverrideTerminates ==
  (LeavesOut /\ pc[FIN] = "wait" /\ Submitted = Written)
    ~> ((result[FIN].st = "resolved" /\ wstate = "closed") \/ wstate = "errored")

\* Every entry made with createEntryStream is written, finalize has accepted
\* a list that leaves one out and waits in onceQueueEmpty: #entries is
\* shorter than #entryCount and #queued is resolved.
C14_Witness ==
  /\ LeavesOut
  /\ pc[FIN] = "wait"
  /\ Submitted = Written
  /\ Len(entries) < nextId - 1
  /\ QueuedState(nextId - 1) = "resolved"
  /\ wstate = "writable"

\* The count x is at least 2^32 - 1.
AtLeastLimit(x) == x.hi > 65535 \/ (x.hi = 65535 /\ x.lo = 65535)

\* At least one of uncompressedSize, compressedSize, startOffset of the
\* record is at least 2^32 - 1.
AtOrOverLimit(e) ==
  \/ AtLeastLimit(e.uncompressedSize)
  \/ AtLeastLimit(e.compressedSize)
  \/ AtLeastLimit(e.startOffset)

\* The position of the output that holds the k-th central-directory header.
HeaderPosition(k) ==
  CHOOSE a \in Positions("cdfh") :
    Cardinality({b \in Positions("cdfh") : b <= a}) = k

\* What holds of the ZIP64 form when an entry is written: the record that
\* addEntry makes has zip64 = true, and the data descriptor is in the ZIP64
\* form, iff one of the three counts is at least 2^32 - 1; and every
\* central-directory header has the form that the zip64 flag of its record
\* tells.
Zip64AtWrite ==
  /\ ~OverrideApplied =>
       \A k \in 1..Len(entries) : entries[k].zip64 <=> AtOrOverLimit(entries[k])
  /\ \A a \in Positions("dd") :
       out[a].zip64 <=> AtOrOverLimit(EntryInfoOf(out[a].e))
  /\ \A k \in 1..Len(cd) : out[HeaderPosition(k)].zip64 <=> cd[k].zip64

\* C15: the record of an entry has zip64 = true, and its data descriptor and
\* its central-directory header are in the ZIP64 form, if and only if at
\* least one of uncompressedSize, compressedSize and startOffset is at least
\* 2^32 - 1.
C15_Zip64Iff ==
  /\ \A k \in 1..Len(entries) : entries[k].zip64 <=> AtOrOverLimit(entries[k])
  /\ \A a \in Positions("dd") :
       out[a].zip64 <=> AtOrOverLimit(EntryInfoOf(out[a].e))
  /\ \A k \in 1..Len(cd) :
       /\ cd[k].zip64 <=> AtOrOverLimit(cd[k])
       /\ out[HeaderPosition(k)].zip64 <=> AtOrOverLimit(cd[k])

\* A closed archive in which an entry whose three counts are below 2^32 - 1,
\* and whose data descriptor is in the standard form, has its
\* central-directory header in the ZIP64 form.
C15_Witness ==
  /\ wstate = "closed"
  /\ \E k \in 1..Len(cd) :
       /\ ~AtOrOverLimit(cd[k])
       /\ out[HeaderPosition(k)].zip64
       /\ \E a \in Positions("dd") : out[a].e = cd[k].id /\ ~out[a].zip64

\* The entry starts at 2^32 - 2 or before, and its local header and payload
\* reach beyond the offset 2^32 - 1.
Crosses(e) ==
  /\ ~AtLeastLimit(e.startOffset)
  /\ Gt(BigAdd(BigAdd(e.startOffset, BigInt(LOCAL_FILE_HEADER_SIZE + e.nameBytes)),
               e.compressedSize),
        ZIP64_LIMIT)

\* The data descriptor of entry i in the output is in the ZIP64 form.
DescriptorZip64(i) == \E a \in Positions("dd") : out[a].e = i /\ out[a].zip64

\* C16 (as amended): an entry that starts at 2^32 - 2 or before is encoded
\* as ZIP64 (record flag and data descriptor) iff its uncompressedSize or its
\* compressedSize is at least 2^32 - 1, whether or not its local header and
\* payload reach beyond the offset 2^32 - 1; an entry that starts at 2^32 - 1
\* or beyond, as every entry after such a crossing does, is ZIP64.
C16_CrossingAlone ==
  /\ \A i \in Written :
       /\ DescriptorZip64(i) <=>
            \/ AtLeastLimit(loc[i].startOffset)
            \/ AtLeastLimit(loc[i].uncompressedSize)
            \/ AtLeastLimit(loc[i].compressedSize)
       /\ \A j \in Written :
            (Crosses(EntryInfoOf(i)) /\ i < j) => DescriptorZip64(j)
  /\ ~OverrideApplied =>
       \A k \in 1..Len(entries) :
         /\ entries[k].zip64 <=> DescriptorZip64(entries[k].id)
         /\ entries[k].startOffset = loc[entries[k].id].startOffset
         /\ entries[k].uncompressedSize = loc[entries[k].id].uncompressedSize
         /\ entries[k].compressedSize = loc[entries[k].id].compressedSize

\* The second entry starts at 2^32 - 2, its header and its one byte of
\* payload lie beyond 2^32 - 1, and it is not ZIP64.
C16_Witness ==
  /\ Len(entries) = 2
  /\ ~OverrideApplied
  /\ entries[2].startOffset = BigSub(ZIP64_LIMIT, BigInt(1))
  /\ entries[2].uncompressedSize = BigInt(1)
  /\ Crosses(entries[2])
  /\ ~entries[2].zip64
  /\ ~DescriptorZip64(2)
  /\ Gt(offset, ZIP64_LIMIT)

\* C16 (as stated): an entry whose startOffset is at most 2^32 - 2 but whose
\* local header plus payload cross the offset 2^32 - 1 is encoded as ZIP64.
C16_CrossingIsZip64 ==
  \A i \in Written : Crosses(EntryInfoOf(i)) => DescriptorZip64(i)

\* The number of bytes of the output before the central directory of a
\* directory whose end record is at position a, and the number of bytes of
\* its headers.
BytesBeforeDirectory(a) == OutBytes(a - 1 - Len(cd))
BytesOfDirectory(a) == BigSub(OutBytes(a - 1), BytesBeforeDirectory(a))

\* The length of the end record: the ZIP64 record, its locator and the
\* standard record, or the standard record alone.
EndRecordLength(zip64) ==
  IF zip64 THEN EOCD64_SIZE + EOCD64_LOCATOR_SIZE + EOCD_SIZE ELSE EOCD_SIZE

\* C17: finalize emits the ZIP64 end record and its locator if and only if
\* the number of entries of the central directory is at least 65535, or the
\* offset of the central directory is at least 2^32 - 1, or its size is at
\* least 2^32 - 1. In the formula: the end record in the output is in the
\* ZIP64 form (98 bytes) iff one of the three holds of the headers and of
\* the bytes that precede it in the output, and eocdNeedsZip64 and getEOCD
\* agree with the three tests on every eocdOptions around the limits.
C17_EocdZip64Iff ==
  /\ \A a \in Positions("eocd") :
       /\ out[a].zip64 <=>
            \/ Len(cd) >= 65535
            \/ AtLeastLimit(BytesBeforeDirectory(a))
            \/ AtLeastLimit(BytesOfDirectory(a))
       /\ out[a].n = BigInt(EndRecordLength(out[a].zip64))
  /\ (probe.f = "getEOCD" /\ probe.applied) =>
       /\ probe.zip64 <=>
            \/ probe.entriesCount >= 65535
            \/ AtLeastLimit(probe.centralDirectoryStart)
            \/ AtLeastLimit(probe.centralDirectorySize)
       /\ probe.byteLength = EndRecordLength(probe.zip64)

\* finalize has closed an archive whose central directory starts at 2^32 - 1
\* exactly and holds one entry that is not ZIP64: the end record is in the
\* ZIP64 form.
C17_Witness ==
  /\ wstate = "closed"
  /\ fin.centralDirectoryStart = ZIP64_LIMIT
  /\ Len(cd) = 1
  /\ ~cd[1].zip64
  /\ out[Len(out)].k = "eocd"
  /\ out[Len(out)].zip64
  /\ out[Len(out)].n = BigInt(EOCD64_SIZE + EOCD64_LOCATOR_SIZE + EOCD_SIZE)

\* finalize has returned its summary.
SummaryReturned == result[FIN].st = "resolved" /\ fin.summary.def

\* C18: the summary returned by finalize has zip64 = true if and only if at
\* least one entry of the archive is ZIP64 (its record in the central
\* directory has the flag and its header is in the ZIP64 form) or the end
\* record is ZIP64; and finalize resolves with a summary, never without.
C18_SummaryZip64 ==
  /\ result[FIN].st = "resolved" => fin.summary.def
  /\ SummaryReturned =>
       (fin.summary.zip64 <=>
          \/ \E k \in 1..Len(cd) : cd[k].zip64 /\ out[HeaderPosition(k)].zip64
          \/ out[Len(out)].k = "eocd" /\ out[Len(out)].zip64)

\* The summary of an archive of two entries of which the second alone is
\* ZIP64, by its startOffset of 2^32 - 1: zip64 is true.
C18_Witness ==
  /\ SummaryReturned
  /\ fin.summary.zip64
  /\ Len(cd) = 2
  /\ ~cd[1].zip64
  /\ cd[2].zip64
  /\ cd[2].startOffset = ZIP64_LIMIT
  /\ ~AtLeastLimit(cd[2].uncompressedSize)

\* Two counts have the same value, bigint or number.
SameValue(a, b) == a.hi = b.hi /\ a.lo = b.lo

\* The sums of uncompressedSize and of compressedSize over the first k
\* records of the central directory.
RECURSIVE UncompressedSum(_)
UncompressedSum(k) ==
  IF k = 0 THEN BigInt(0)
  ELSE BigAdd(UncompressedSum(k - 1), ToBigInt(cd[k].uncompressedSize))
RECURSIVE CompressedSum(_)
CompressedSum(k) ==
  IF k = 0 THEN BigInt(0)
  ELSE BigAdd(CompressedSum(k - 1), ToBigInt(cd[k].compressedSize))

\* The sums of the sizes counted by the callbacks of the calls 1..i.
RECURSIVE WrittenUncompressed(_)
WrittenUncompressed(i) ==
  IF i = 0 THEN BigInt(0)
  ELSE BigAdd(WrittenUncompressed(i - 1), loc[i].uncompressedSize)
RECURSIVE WrittenCompressed(_)
WrittenCompressed(i) ==
  IF i = 0 THEN BigInt(0)
  ELSE BigAdd(WrittenCompressed(i - 1), loc[i].compressedSize)

\* C19: in the summary returned by a successful finalize, fileSize is the
\* total number of bytes emitted on the output (entries, central directory
\* and end records), and uncompressedEntriesSize and compressedEntriesSize
\* are the sums of those fields over the entries, that is over the records
\* of the central directory; without an override these are the sizes of all
\* the entries written. The three are bigints when zip64 is true, numbers
\* when it is false.
C19_SummarySizes ==
  SummaryReturned =>
    /\ SameValue(fin.summary.fileSize, OutBytes(Len(out)))
    /\ SameValue(fin.summary.fileSize, offset)
    /\ SameValue(fin.summary.uncompressedEntriesSize, UncompressedSum(Len(cd)))
    /\ SameValue(fin.summary.compressedEntriesSize, CompressedSum(Len(cd)))
    /\ ~fin.hasOverride =>
         /\ SameValue(fin.summary.uncompressedEntriesSize,
                      WrittenUncompressed(nextId - 1))
         /\ SameValue(fin.summary.compressedEntriesSize,
                      WrittenCompressed(nextId - 1))
    /\ \A x \in {fin.summary.fileSize, fin.summary.uncompressedEntriesSize,
                 fin.summary.compressedEntriesSize} :
         x.t = IF fin.summary.zip64 THEN "bigint" ELSE "number"

\* The summary of an archive of a STORE entry of two bytes and a DEFLATE
\* entry of one byte that the compressor made two: numbers 3 and 4.
C19_Witness ==
  /\ SummaryReturned
  /\ ~fin.hasOverride
  /\ Len(cd) = 2
  /\ fin.summary.uncompressedEntriesSize = ToNumber(BigInt(3))
  /\ fin.summary.compressedEntriesSize = ToNumber(BigInt(4))
  /\ fin.summary.fileSize = ToNumber(OutBytes(Len(out)))
  /\ fin.summary.fileSize.lo > EOCD_SIZE

\* The position of the local header of entry i in the output, and the
\* number of bytes of payload that follow it.
HeaderOf(i) == CHOOSE a \in Positions("lfh") : out[a].e = i
PayloadBytes(i) ==
  IF HeaderOf(i) < Len(out) /\ out[HeaderOf(i) + 1].k = "data"
  THEN out[HeaderOf(i) + 1].n
  ELSE BigInt(0)

\* The data descriptor of entry i comes right after its payload.
DescriptorAfterPayload(i) ==
  LET a == HeaderOf(i)
      b == IF PayloadBytes(i) = BigInt(0) THEN a + 1 ELSE a + 2
  IN  b <= Len(out) /\ out[b].k = "dd" /\ out[b].e = i

\* C20: for every completed entry, compressedSize is the number of bytes
\* written to the output between the end of its local header and the start
\* of its data descriptor, the bytes emitted by the compression stage; for a
\* STORE entry it equals uncompressedSize, which grows with every chunk of
\* the source by as many bytes as the output does.
C20_CompressedSize ==
  /\ [](\A i \in Written :
          /\ DescriptorAfterPayload(i)
          /\ loc[i].compressedSize = PayloadBytes(i)
          /\ opt[i].store => loc[i].compressedSize = loc[i].uncompressedSize
          /\ ~OverrideApplied =>
               \E k \in 1..Len(entries) :
                 /\ entries[k].id = i
                 /\ entries[k].compressedSize = PayloadBytes(i)
                 /\ entries[k].uncompressedSize = loc[i].uncompressedSize)
  /\ [][\A i \in EntryIds :
          (pc[i] = "pipe" /\ opt[i].store) =>
            BigSub(loc'[i].uncompressedSize, loc[i].uncompressedSize)
              = BigSub(offset', offset)]_vars

\* A DEFLATE entry of two bytes for which the compressor emitted one byte,
\* at the flush, and a STORE entry of 2^32 - 1 bytes, both complete.
C20_Witness ==
  /\ Written = {1, 2}
  /\ ~opt[1].store
  /\ loc[1].uncompressedSize = BigInt(2)
  /\ loc[1].compressedSize = BigInt(1)
  /\ opt[2].store
  /\ loc[2].compressedSize = ZIP64_LIMIT
  /\ PayloadBytes(2) = ZIP64_LIMIT

\* The CRC primitive folded over the bytes read from the source of entry i.
CrcOfSource(i) == Crc32(probe.bytes[i], 0)

\* C21: the crc32 of an entry's record, written in its data descriptor and
\* in its central-directory header, is the CRC primitive folded over the
\* uncompressed chunks of the source in the order they were read, starting
\* from 0, whatever the compression stage emitted.
C21_CrcOverSource ==
  \A i \in Written :
    /\ EntryInfoOf(i).crc32 = CrcOfSource(i)
    /\ loc[i].uncompressedSize = BigInt(Len(probe.bytes[i]))
    /\ \A k \in 1..Len(entries) :
         ToBigInt(entries[k].startOffset) = loc[i].startOffset
           => entries[k].crc32 = CrcOfSource(i)
    /\ \A k \in 1..Len(cd) :
         ToBigInt(cd[k].startOffset) = loc[i].startOffset
           => cd[k].crc32 = CrcOfSource(i)

\* Two DEFLATE entries are in the directory: one read the bytes 1, 2 and the
\* other the bytes 2, 1, each in two chunks; their checksums differ, and the
\* compression stage emitted one byte for the first and three for the other.
C21_Witness ==
  /\ Written = {1, 2}
  /\ Len(cd) = 2
  /\ ~opt[1].store /\ ~opt[2].store
  /\ probe.bytes[1] = <<1, 2>>
  /\ probe.bytes[2] = <<2, 1>>
  /\ cd[1].crc32 # cd[2].crc32
  /\ loc[1].compressedSize = BigInt(1)
  /\ loc[2].compressedSize = BigInt(3)
  /\ loc[1].checksum # Crc32(<<2>>, 0)

\* The data descriptors of the output whose entry is, or is not, ZIP64.
DescriptorsOf(zip64) == {a \in Positions("dd") : out[a].zip64 = zip64}

\* C22: the data descriptor written after the payload of an entry advances
\* the output offset by exactly 16 bytes when the entry is not ZIP64 and by
\* exactly 24 bytes when it is.
C22_DescriptorLength ==
  /\ \A a \in DescriptorsOf(FALSE) : out[a].n = BigInt(DATA_DESCRIPTOR_SIZE)
  /\ \A a \in DescriptorsOf(TRUE) :
       out[a].n = BigInt(DATA_DESCRIPTOR_SIZE_ZIP64)

\* An entry of one byte, far below the ZIP64 limit, is complete and its data
\* descriptor took 24 bytes of the output.
C22_Witness ==
  \E a \in DescriptorsOf(FALSE) :
    /\ out[a].e \in Written
    /\ loc[out[a].e].uncompressedSize = BigInt(1)
    /\ ~EntryInfoOf(out[a].e).zip64
    /\ out[a].n = BigInt(DATA_DESCRIPTOR_SIZE_ZIP64)
    /\ BigSub(offset, BigAdd(loc[out[a].e].fileStartOffset,
                             loc[out[a].e].compressedSize))
         = BigInt(DATA_DESCRIPTOR_SIZE_ZIP64)

\* The callback of entry i leaves the pipe.
PipeSettles(i) == pc[i] = "pipe" /\ pc'[i] # "pipe"

\* No record of #entries or of the central directory is at the offset where
\* the entry of call i starts.
NoRecordOf(i) ==
  /\ \A k \in 1..Len(entries) :
       ToBigInt(entries[k].startOffset) # loc[i].startOffset
  /\ \A k \in 1..Len(cd) : ToBigInt(cd[k].startOffset) # loc[i].startOffset

\* The source of entry i errored while the entry was being written.
SourceErrored(i) ==
  result[i] = [st |-> "rejected", err |-> SourceError(i)]

\* C23: if the source of an entry errors while the entry is being written
\* to a live output, the addEntry promise rejects with that error, the
\* output stream is aborted with the same error, which is what the consumer
\* sees, and no record of the entry is added to the entry list.
C23_SourceErrorAborts ==
  /\ [][\A i \in EntryIds :
          (PipeSettles(i) /\ src[i] = "errored" /\ wstate = "writable")
            => /\ result'[i] = [st |-> "rejected", err |-> SourceError(i)]
               /\ wstate' = "errored"
               /\ werr' = SourceError(i)
               /\ entries' = entries]_vars
  /\ [](\A i \in EntryIds : SourceErrored(i) => NoRecordOf(i))

\* The source of the second entry errored after one byte of it was written:
\* the first entry is complete, the promise of the second is rejected with
\* the source's error and so is the output.
C23_Witness ==
  /\ result[1].st = "resolved"
  /\ SourceErrored(2)
  /\ werr = SourceError(2)
  /\ wstate = "errored"
  /\ out[Len(out)] = [k |-> "data", e |-> 2, n |-> BigInt(1), zip64 |-> FALSE]
  /\ Len(entries) = 1

\* The callback of entry i is between reading its startOffset and settling,
\* and the consumer has failed meanwhile.
BeingWritten(i) ==
  pc[i] \in {"header", "headerReady", "pipe", "descriptorStart",
             "descriptorReady", "descriptor"}
SinkErroredDuring(i) ==
  BeingWritten(i) /\ wstate = "errored" /\ werr = SinkError
RejectedWith(i, err) == result'[i] = [st |-> "rejected", err |-> err]

\* C24: if the consumer of the output errors while an entry is being
\* written, the addEntry promise rejects; it rejects with the consumer's
\* error and the source is cancelled when the entry's header or payload was
\* being written and the source had not errored itself. A source that has
\* errored is not touched, and during the payload the promise may then
\* reject with the source's error. A source that was read to its end is not
\* cancelled: the promise rejects with the consumer's error when the data
\* descriptor cannot be written.
C24_SinkErrorCancels ==
  [][\A i \in EntryIds :
       (SinkErroredDuring(i) /\ pc'[i] = "done")
         => CASE pc[i] \in {"header", "headerReady", "pipe"}
                   /\ src[i] # "errored"
                   -> RejectedWith(i, SinkError) /\ src'[i] = "cancelled"
              [] pc[i] \in {"header", "headerReady"} /\ src[i] = "errored"
                   -> RejectedWith(i, SinkError) /\ src'[i] = "errored"
              [] pc[i] = "pipe" /\ src[i] = "errored"
                   -> /\ RejectedWith(i, SinkError)
                         \/ RejectedWith(i, SourceError(i))
                      /\ src'[i] = "errored"
              [] OTHER
                   -> /\ RejectedWith(i, SinkError)
                      /\ src[i] = "ended"
                      /\ src'[i] = "ended"]_vars

\* The consumer failed after one byte of the payload of the first entry was
\* written: the source, still open, was cancelled and the promise rejected
\* with the consumer's error.
C24_Witness ==
  /\ result[1] = [st |-> "rejected", err |-> SinkError]
  /\ src[1] = "cancelled"
  /\ Len(out) = 2
  /\ out[2] = [k |-> "data", e |-> 1, n |-> BigInt(1), zip64 |-> FALSE]
  /\ wlock = NoOwner

\* (the statement without its cases: whenever the consumer errors while an
\* entry is being written, the source of the entry is cancelled and the
\* promise rejects with the consumer's error)
C24_AlwaysCancelled ==
  [][\A i \in EntryIds :
       (SinkErroredDuring(i) /\ pc'[i] = "done")
         => RejectedWith(i, SinkError) /\ src'[i] = "cancelled"]_vars

\* The entry of call j failed after its local header was written.
FailedMidEntry(j) ==
  /\ result[j].st = "rejected"
  /\ \E a \in Positions("lfh") : out[a].e = j

\* Nothing of the entry of call i is in the output.
NothingWritten(i) == \A a \in 1..Len(out) : out[a].e # i

\* C25: after a source or sink error in the middle of an entry, no addEntry
\* submitted afterwards, or already queued behind the failed entry, writes
\* anything or resolves, and every one of them settles: its promise is
\* rejected.
C25_LaterEntriesReject ==
  /\ [](\A j \in EntryIds : \A i \in EntryIds :
          (FailedMidEntry(j) /\ j < i)
            => /\ result[i].st # "resolved"
               /\ NothingWritten(i)
               /\ result[i].st = "rejected"
                    => result[i].err \in {werr, LockedError})
  /\ \A j \in EntryIds : \A i \in EntryIds :
       (FailedMidEntry(j) /\ j < i /\ pc[i] # "idle")
         ~> (result[i].st = "rejected")

\* The source of the first entry errored during its payload; the second
\* entry, submitted after that, is rejected with the same error.
C25_Witness ==
  /\ FailedMidEntry(1)
  /\ result[1].err = SourceError(1)
  /\ src[2] = "open"
  /\ result[2] = [st |-> "rejected", err |-> SourceError(1)]
  /\ NothingWritten(2)

\* (the statement as it is made: the promise of an addEntry submitted after,
\* or queued behind, an entry that failed midway never settles)
C25_BlocksForever ==
  \A j \in EntryIds : \A i \in EntryIds :
    (FailedMidEntry(j) /\ j < i) => result[i].st \notin {"resolved", "rejected"}

\* Every addEntry call made has resolved, and the callback of finalize is
\* writing the directory or the end record while the consumer has failed.
AllWritten == \A i \in EntryIds : pc[i] # "idle" => result[i].st = "resolved"
SinkErroredInFinalize ==
  /\ pc[FIN] \in {"ready", "directory", "close"}
  /\ AllWritten
  /\ wstate = "errored"
  /\ werr = SinkError

\* C26: if the consumer errors while finalize is writing the central
\* directory or the end record, after all entries were written successfully,
\* the finalize promise rejects with the consumer's error and the output
\* stream ends in the error state, never in the closed state.
C26_FinalizeSinkError ==
  /\ [][SinkErroredInFinalize
          => /\ wstate' = "errored"
             /\ werr' = SinkError
             /\ pc'[FIN] = "done"
                  => result'[FIN] = [st |-> "rejected", err |-> SinkError]]_vars
  /\ SinkErroredInFinalize
       ~> (result[FIN] = [st |-> "rejected", err |-> SinkError]
             /\ wstate = "errored")

\* Two entries were written; the consumer failed after the first header of
\* the directory was written, and finalize is rejected with its error.
C26_Witness ==
  /\ Written = {1, 2}
  /\ out[Len(out)].k = "cdfh"
  /\ Len(cd) = 1
  /\ result[FIN] = [st |-> "rejected", err |-> SinkError]
  /\ wstate = "errored"
  /\ wlock = NoOwner

\* The promise of entries() resolves in this step.
EntriesResolves == probe.st = "queued" /\ probe'.st = "resolved"

\* The public records of the addEntry calls, among the first n, that have
\* resolved, in call order, each made of the options of the call and of what
\* its callback counted.
ResolvedAmong(n) ==
  SelectSeq([i \in 1..n |-> i], LAMBDA i : result[i].st = "resolved")
RecordsOfCalls(n) ==
  [k \in 1..Len(ResolvedAmong(n)) |->
     GetPublicEntryInfo(EntryInfoOf(ResolvedAmong(n)[k]))]

\* No callback of addEntry is between its start and its end.
NoEntryInProgress == \A i \in EntryIds : pc[i] \in {"idle", "queued", "done"}

\* C27: entries() resolves only at a moment when no entry is partly
\* written: the addEntry calls made before it have all settled and those
\* made after it have not started. It returns the records of the calls made
\* before it that resolved, in call order, each with its data descriptor in
\* the output, unless a finalize called before it has replaced the entry list
\* by an override: it then returns the records of that list.
C27_EntriesSnapshot ==
  [][EntriesResolves
       => /\ NoEntryInProgress
          /\ \A i \in EntryIds : i <= probe.before => pc[i] = "done"
          /\ \A i \in EntryIds : i > probe.before => pc[i] \in {"idle", "queued"}
          /\ \A k \in 1..Len(probe'.value) :
               \E i \in Written :
                 /\ HasDescriptor(i)
                 /\ ToBigInt(probe'.value[k].startOffset) = loc[i].startOffset
          /\ IF OverrideApplied
             THEN probe'.value =
                    [k \in 1..Len(fin.list) |->
                       GetPublicEntryInfo(InternalEntry(fin.list[k]))]
             ELSE probe'.value = RecordsOfCalls(probe.before)]_vars

\* entries() was called while the first entry was being written and before
\* the second addEntry: it resolved with the record of the first entry alone,
\* and the second entry has been written since.
C27_Witness ==
  /\ probe.st = "resolved"
  /\ probe.before = 1
  /\ Len(probe.value) = 1
  /\ probe.value[1] = GetPublicEntryInfo(EntryInfoOf(1))
  /\ Written = {1, 2}
  /\ Len(entries) = 2

\* (the statement without the override: entries() always returns exactly the
\* records of the addEntry calls made before it)
C27_ExactlySubmitted ==
  [][EntriesResolves => probe'.value = RecordsOfCalls(probe.before)]_vars

\* finalize has been called without an override, or its callback has
\* accepted the override it was given.
FinalizeUnderWay ==
  \/ pc[FIN] = "queued" /\ ~fin.hasOverride
  \/ pc[FIN] \in {"ready", "directory", "close"}

\* The promise of finalize has resolved, the output is closed and the end
\* record is the last chunk of it.
FinalizedAndClosed ==
  /\ result[FIN].st = "resolved"
  /\ wstate = "closed"
  /\ out # <<>>
  /\ out[Len(out)].k = "eocd"

\* C28: if every source ends without error and the consumer keeps
\* consuming, then after finalize() is called the promise of finalize
\* eventually resolves and the output stream is eventually closed, the end
\* record being the last bytes emitted; the same holds for a finalize whose
\* override is accepted.
C28_FinalizeTerminates ==
  /\ FinalizeUnderWay ~> FinalizedAndClosed
  /\ [](result[FIN].st = "resolved" => FinalizedAndClosed)
  /\ [][FinalizedAndClosed => (out' = out /\ wstate' = "closed")]_vars

\* finalize() was called and two entries of two bytes were written: the
\* archive is complete, the end record last.
C28_Witness ==
  /\ FinalizedAndClosed
  /\ ~fin.hasOverride
  /\ Written = {1, 2}
  /\ Len(cd) = 2
  /\ \A i \in Written : loc[i].uncompressedSize = BigInt(2)
  /\ Len(out) = 9

\* What a run is given: the options of the addEntry calls, in call order, the
\* bytes of their sources, and the options of finalize. Every entry is STORE
\* and has an explicit date.
StoreWithDates ==
  \A i \in Submitted : opt[i].store /\ opt[i].date # UndefinedDate

\* The bytes of the entry of call i: local header, payload, data descriptor.
GivenEntryBytes(i) ==
  LOCAL_FILE_HEADER_SIZE + TextEncode(opt[i].name) + Len(probe.bytes[i])
    + DATA_DESCRIPTOR_SIZE_ZIP64

\* The offset where the entry of call i starts.
RECURSIVE GivenStart(_)
GivenStart(i) ==
  IF i = 1 THEN 0 ELSE GivenStart(i - 1) + GivenEntryBytes(i - 1)

\* The record of the entry of call i.
GivenRecord(i) ==
  [id |-> i, name |-> opt[i].name, comment |-> opt[i].comment,
   mode |-> opt[i].mode, store |-> opt[i].store, date |-> opt[i].date,
   nameBytes |-> TextEncode(opt[i].name),
   commentBytes |-> EncodeOptional(opt[i].comment),
   startOffset |-> BigInt(GivenStart(i)),
   crc32 |-> Crc32(probe.bytes[i], 0),
   uncompressedSize |-> BigInt(Len(probe.bytes[i])),
   compressedSize |-> BigInt(Len(probe.bytes[i])),
   zip64 |-> FALSE]

\* The chunks of the entries of the calls 1..n.
RECURSIVE GivenEntries(_)
GivenEntries(n) ==
  IF n = 0 THEN <<>>
  ELSE GivenEntries(n - 1)
         \o <<[k |-> "lfh", e |-> n,
               n |-> BigInt(LOCAL_FILE_HEADER_SIZE + TextEncode(opt[n].name)),
               zip64 |-> FALSE]>>
         \o (IF probe.bytes[n] = <<>> THEN <<>>
             ELSE <<[k |-> "data", e |-> n, n |-> BigInt(Len(probe.bytes[n])),
                     zip64 |-> FALSE]>>)
         \o <<[k |-> "dd", e |-> n, n |-> BigInt(DATA_DESCRIPTOR_SIZE_ZIP64),
               zip64 |-> FALSE]>>

\* The records of the central directory, and its chunks with the end record.
GivenDirectory ==
  IF fin.hasOverride THEN SetEntries(fin.list)
  ELSE [i \in 1..(nextId - 1) |-> GivenRecord(i)]
GivenDirectoryStart == GivenStart(nextId)
RECURSIVE GivenDirectorySize(_)
GivenDirectorySize(k) ==
  IF k = 0 THEN 0 ELSE GivenDirectorySize(k - 1) + CDFHLen(GivenDirectory[k])
GivenTail ==
  [k \in 1..Len(GivenDirectory) |->
     [k |-> "cdfh", e |-> FIN, n |-> BigInt(CDFHLen(GivenDirectory[k])),
      zip64 |-> GivenDirectory[k].zip64]]
    \o <<[k |-> "eocd", e |-> FIN,
          n |-> BigInt(EOCDLen(BigInt(GivenDirectoryStart),
                               BigInt(GivenDirectorySize(Len(GivenDirectory))),
                               Len(GivenDirectory))),
          zip64 |-> EOCDZip64(BigInt(GivenDirectoryStart),
                              BigInt(GivenDirectorySize(Len(GivenDirectory))),
                              Len(GivenDirectory))]>>

\* C29: the output is a function of what the run is given: for the same
\* sequence of addEntry calls (options with explicit dates, STORE payload
\* bytes) and the same finalize call, the chunks of the output and the
\* records written in them are the same, whatever the chunking of the
\* sources and the interleaving of the calls and the callbacks.
C29_Deterministic ==
  (result[FIN].st = "resolved" /\ StoreWithDates)
    => /\ out = GivenEntries(nextId - 1) \o GivenTail
       /\ cd = GivenDirectory
       /\ \A i \in Submitted : EntryInfoOf(i) = GivenRecord(i)

\* Two STORE entries with dates, of the bytes 1, 2 and of the byte 2, and a
\* finalize with an override that lists the second entry alone.
C29_Witness ==
  /\ result[FIN].st = "resolved"
  /\ StoreWithDates
  /\ nextId = 3
  /\ probe.bytes[1] = <<1, 2>>
  /\ probe.bytes[2] = <<2>>
  /\ fin.hasOverride
  /\ Len(cd) = 1
  /\ cd[1].startOffset = BigInt(GivenStart(2))

\* The header of the k-th record of the central directory, as getCDFH makes
\* it of the public form of the record.
HeaderOfRecord(k) == GetCDFH(GetPublicEntryInfo(cd[k]))

\* The position in the output of the k-th header of the directory.
HeaderChunk(k) ==
  CHOOSE a \in Positions("cdfh") :
    Cardinality({b \in Positions("cdfh") : b < a}) = k - 1

\* The 32-bit fields of a header hold the sentinel, or the real values of
\* the record.
SentinelFields(h) ==
  /\ h.compressedSize = MAX_4_BYTE
  /\ h.uncompressedSize = MAX_4_BYTE
  /\ h.startOffset = MAX_4_BYTE
RealFields(h, e) ==
  /\ SameValue(h.compressedSize, e.compressedSize)
  /\ SameValue(h.uncompressedSize, e.uncompressedSize)
  /\ SameValue(h.startOffset, e.startOffset)

\* C30: the central-directory header of a ZIP64 entry carries 0xFFFFFFFF in
\* its 32-bit compressed-size, uncompressed-size and local-header-offset
\* fields, version-needed 45, and an extra field of 28 bytes (tag 0x0001)
\* with the real uncompressedSize, compressedSize and startOffset as 64-bit
\* values; the header of an entry that is not ZIP64 carries the real values
\* in the 32-bit fields, version-needed 20 and an extra-field length of 0.
C30_HeaderFields ==
  \A k \in 1..Len(cd) :
    LET e == cd[k]
        h == HeaderOfRecord(k)
    IN  /\ out[HeaderChunk(k)].n = BigInt(h.byteLength)
        /\ IF e.zip64
           THEN /\ SentinelFields(h)
                /\ h.versionNeeded = 45
                /\ h.extraLength = 28
                /\ h.extra.tag = 1
                /\ h.extra.size = 24
                /\ h.extra.uncompressedSize = e.uncompressedSize
                /\ h.extra.compressedSize = e.compressedSize
                /\ h.extra.startOffset = e.startOffset
           ELSE /\ RealFields(h, e)
                /\ h.versionNeeded = 20
                /\ h.extraLength = 0
                /\ h.extra = NoExtra

\* The second entry starts beyond 2^32 and finalize was given its record
\* with the zip64 flag cleared: the header written for it is the standard
\* one, and its 32-bit offset field does not hold the startOffset.
C30_Witness ==
  \E k \in 1..Len(cd) :
    /\ ~cd[k].zip64
    /\ cd[k].startOffset = loc[2].startOffset
    /\ 2 \in Written
    /\ ~Geq(ZIP64_LIMIT, cd[k].startOffset)
    /\ HeaderOfRecord(k).startOffset # ToNumber(cd[k].startOffset)
    /\ HeaderOfRecord(k).versionNeeded = VERSION_NEEDED_STANDARD

\* The headers of the records whose zip64 flag is the one addEntry computed
\* are as stated.
HeadersOfComputedFlags ==
  \A k \in 1..Len(cd) :
    LET e == cd[k]
        h == HeaderOfRecord(k)
    IN  e.zip64 = EntryNeedsZip64(e.uncompressedSize, e.compressedSize,
                                  e.startOffset)
          => IF e.zip64
             THEN SentinelFields(h) /\ h.versionNeeded = 45
                  /\ h.extraLength = 28
                  /\ h.extra.startOffset = e.startOffset
             ELSE RealFields(h, e) /\ h.versionNeeded = 20
                  /\ h.extraLength = 0

\* An end record is the ZIP64 record of 56 bytes, the locator of 20 bytes
\* pointing at the end of the central directory, and the standard record of
\* 22 bytes holding the sentinels.
Zip64EndRecord(r, start, size, count) ==
  /\ r.layout = <<[k |-> "eocd64", n |-> 56], [k |-> "locator", n |-> 20],
                  [k |-> "eocd", n |-> 22]>>
  /\ r.byteLength = 98
  /\ r.eocd64.entriesCount = count
  /\ SameValue(r.eocd64.centralDirectorySize, size)
  /\ SameValue(r.eocd64.centralDirectoryOffset, start)
  /\ r.locator.offset = BigAdd(ToBigInt(start), ToBigInt(size))
  /\ r.eocd.entriesCount = 65535
  /\ r.eocd.centralDirectorySize = MAX_4_BYTE
  /\ r.eocd.centralDirectoryOffset = MAX_4_BYTE

\* An end record is the standard record alone, with the real values.
StandardEndRecord(r, start, size, count) ==
  /\ r.layout = <<[k |-> "eocd", n |-> 22]>>
  /\ r.byteLength = 22
  /\ r.eocd.entriesCount = count
  /\ SameValue(r.eocd.centralDirectorySize, size)
  /\ SameValue(r.eocd.centralDirectoryOffset, start)

\* The end record finalize wrote, made of the locals of its callback.
EndRecordWritten ==
  GetEOCD(fin.centralDirectoryStart, fin.centralDirectorySize, Len(cd))

\* C31: when the end record needs ZIP64, the last write of finalize is the
\* ZIP64 end record of 56 bytes, then the locator of 20 bytes, then the
\* standard end record of 22 bytes with 0xFFFF and 0xFFFFFFFF in its count,
\* size and offset; the offset of the locator is centralDirectoryStart +
\* centralDirectorySize, the offset of the output at which the ZIP64 record
\* begins. Otherwise the last write is the standard record of 22 bytes alone
\* with the real count, size and offset.
C31_EndRecords ==
  /\ \A a \in Positions("eocd") :
       /\ a = Len(out)
       /\ out[a].n = BigInt(EndRecordWritten.byteLength)
       /\ fin.centralDirectoryStart = BytesBeforeDirectory(a)
       /\ fin.centralDirectorySize = BytesOfDirectory(a)
       /\ IF EocdNeedsZip64(fin.centralDirectoryStart,
                            fin.centralDirectorySize, Len(cd))
          THEN /\ Zip64EndRecord(EndRecordWritten, fin.centralDirectoryStart,
                                 fin.centralDirectorySize, Len(cd))
               /\ EndRecordWritten.locator.offset = OutBytes(a - 1)
          ELSE StandardEndRecord(EndRecordWritten, fin.centralDirectoryStart,
                                 fin.centralDirectorySize, Len(cd))
  /\ (probe.f = "getEOCD" /\ probe.applied) =>
       IF EocdNeedsZip64(probe.centralDirectoryStart,
                         probe.centralDirectorySize, probe.entriesCount)
       THEN Zip64EndRecord(probe.eocd, probe.centralDirectoryStart,
                           probe.centralDirectorySize, probe.entriesCount)
       ELSE StandardEndRecord(probe.eocd, probe.centralDirectoryStart,
                              probe.centralDirectorySize, probe.entriesCount)

\* finalize has closed an archive of two entries whose central directory
\* starts beyond 2^32: the end record is the three records, 98 bytes, and its
\* locator points at the offset where they begin.
C31_Witness ==
  /\ wstate = "closed"
  /\ Len(cd) = 2
  /\ ~Geq(ZIP64_LIMIT, fin.centralDirectoryStart)
  /\ out[Len(out)].k = "eocd"
  /\ out[Len(out)].n = BigInt(98)
  /\ Len(EndRecordWritten.layout) = 3
  /\ EndRecordWritten.locator.offset = OutBytes(Len(out) - 1)
  /\ EndRecordWritten.locator.offset # fin.centralDirectoryStart

(***************************************************************************)
(* getCDFH applied to an entry of every mode validateEntryOptions accepts: *)
(* no mode, and every integer of 0..65535, in both forms of the header.    *)
(***************************************************************************)
\* The mode of a probe: v = -1 stands for an entry without a mode.
ModeOf(v) == IF v < 0 THEN UndefinedMode ELSE IntMode(v)

ModeEntry(mode, zip64) ==
  [id |-> 1, name |-> Str(1, 0, 0, 0), comment |-> UndefinedStr,
   mode |-> mode, store |-> TRUE, date |-> Date(1979, 12, 31), crc32 |-> 0,
   zip64 |-> zip64,
   startOffset |-> IF zip64 THEN BigInt(0) ELSE ToNumber(BigInt(0)),
   uncompressedSize |-> IF zip64 THEN BigInt(0) ELSE ToNumber(BigInt(0)),
   compressedSize |-> IF zip64 THEN BigInt(0) ELSE ToNumber(BigInt(0))]

\* The entry to try, with no header yet.
ModeProbe(mode, zip64) ==
  [f |-> "getCDFH", entryInfo |-> ModeEntry(mode, zip64), applied |-> FALSE,
   header |-> <<>>]

ApplyGetCDFH ==
  /\ probe.f = "getCDFH"
  /\ ~probe.applied
  /\ probe' = [probe EXCEPT !.applied = TRUE,
                            !.header = GetCDFH(probe.entryInfo)]
  /\ UNCHANGED <<finalized, entries, offset, out, cd, wstate, werr, wlock,
                 mutexQ, pc, opt, src, loc, fin, result, nextId, lastCall>>

InitModes ==
  /\ WriterInit
  /\ \E v \in (0 - 1)..MAX_2_BYTE, zip64 \in BOOLEAN :
       probe = ModeProbe(ModeOf(v), zip64)

NextModes == ApplyGetCDFH

SpecModes == InitModes /\ [][NextModes]_vars

\* The external attributes hold the mode in the upper 16 bits and 0 in the
\* lower 16 bits, and are 0 without a mode.
ModeInUpperHalf(externalAttrs, mode) ==
  /\ externalAttrs.t = "number"
  /\ externalAttrs.lo = 0
  /\ externalAttrs.hi = IF mode.t = "undefined" THEN 0 ELSE mode.v

\* C32: for every mode in 0..65535 the 32-bit external attributes of the
\* central-directory header hold the mode in the upper 16 bits and 0 in the
\* lower 16 bits, also for modes of 32768 and above, whose shift is negative
\* before it is stored unsigned; without a mode the field is 0.
C32_ExternalAttrs ==
  (probe.f = "getCDFH" /\ probe.applied) =>
    ModeInUpperHalf(probe.header.externalAttrs, probe.entryInfo.mode)

\* getCDFH has built the header of an entry of mode 0o100644 = 33188, whose
\* shift is negative: the field holds 33188 * 65536.
C32_Witness ==
  /\ probe.f = "getCDFH"
  /\ probe.applied
  /\ probe.entryInfo.mode = IntMode(33188)
  /\ ShiftLeft16(33188).neg
  /\ probe.header.externalAttrs = [t |-> "number", hi |-> 33188, lo |-> 0]

\* The offset after the last byte of the entry of a record: its startOffset,
\* the 30 bytes of the local header, the encoded name, the payload and the
\* data descriptor, which getDataDescriptor makes 24 bytes long.
EndOfEntry(e) ==
  BigAdd(BigAdd(BigAdd(e.startOffset,
                       BigInt(LOCAL_FILE_HEADER_SIZE + e.nameBytes)),
                e.compressedSize),
         BigInt(DATA_DESCRIPTOR_SIZE_ZIP64))

\* The bytes of every record of the entry list are counted in the offset, and
\* every record ends where the next one starts.
EntriesCounted ==
  \A k \in 1..Len(entries) :
    /\ Geq(offset, EndOfEntry(entries[k]))
    /\ k < Len(entries) =>
         SameValue(EndOfEntry(entries[k]), entries[k + 1].startOffset)

\* C33: as long as finalize has not replaced the entry list by an override,
\* for every record of the list startOffset + 30 + encoded name length +
\* compressedSize + data descriptor length is at most the current offset, and
\* equals the startOffset of the next record when there is one.
C33_EntriesCounted == ~OverrideApplied => EntriesCounted

\* Two entries are written and no override is under way: the first ends
\* where the second starts, and the second ends at the offset.
C33_Witness ==
  /\ Len(entries) = 2
  /\ ~fin.hasOverride
  /\ SameValue(EndOfEntry(entries[1]), entries[2].startOffset)
  /\ SameValue(EndOfEntry(entries[2]), offset)
  /\ entries[2].startOffset # BigInt(0)

\* C33 as stated, for every entry list: also one that finalize replaced.
C33_AlwaysCounted == EntriesCounted

\* The output was aborted because an entry failed: the callback of an
\* addEntry caught the error of its source and called writer.abort.
AbortedByEntry ==
  \E j \in EntryIds : result[j] = [st |-> "rejected", err |-> SourceError(j)]

\* The entries that have a record in a list.
RecordIds(list) == {list[k].id : k \in 1..Len(list)}

\* C34: once the output has been aborted because an entry failed, it stays
\* errored, the offset never advances, nothing is emitted (no payload, no
\* central directory, no end record), and no record of a further entry
\* enters the entry list: the list changes only when a finalize called with
\* an override replaces it by records of the entries it already holds.
C34_StaysDead ==
  /\ [](AbortedByEntry =>
          /\ wstate = "errored"
          /\ Positions("cdfh") = {}
          /\ Positions("eocd") = {}
          /\ cd = <<>>)
  /\ [][AbortedByEntry =>
          /\ offset' = offset
          /\ out' = out
          /\ RecordIds(entries') \subseteq RecordIds(entries)
          /\ entries' # entries =>
               (pc[FIN] = "queued" /\ fin.hasOverride /\ pc'[FIN] # "queued")]_vars

\* The first entry was written, the source of the second failed after its
\* header, and a finalize called afterwards was rejected with the error of
\* the abort: the output ends with the header of the failed entry.
C34_Witness ==
  /\ result[1].st = "resolved"
  /\ result[2] = [st |-> "rejected", err |-> SourceError(2)]
  /\ result[FIN] = [st |-> "rejected", err |-> SourceError(2)]
  /\ Len(entries) = 1
  /\ out[Len(out)].k = "lfh"
  /\ out[Len(out)].e = 2
  /\ offset = OutBytes(Len(out))

\* C34 as stated: after the abort the offset never advances, nothing is
\* emitted and the entry list never gets longer.
C34_NothingAdded ==
  [][AbortedByEntry =>
       /\ offset' = offset
       /\ out' = out
       /\ Len(entries') <= Len(entries)]_vars

\* finalize was rejected because #setEntries threw on the override.
InvalidOverrideRejected ==
  result[FIN].st = "rejected" /\ result[FIN].err.kind = "setEntries"

\* The public records of the entry list, as entries() returns them.
PublicEntries == [k \in 1..Len(entries) |-> GetPublicEntryInfo(entries[k])]

\* C35: when finalize rejects because the override is invalid, the entry
\* list is left as it was before the call, so that an entries() resolving
\* afterwards returns the records of the entries written, and the finalized
\* flag stays set: a later finalize or addEntry throws the TypeError.
C35_InvalidOverrideKeepsList ==
  /\ [][(~InvalidOverrideRejected /\ InvalidOverrideRejected')
          => (entries' = entries /\ finalized /\ finalized')]_vars
  /\ [](InvalidOverrideRejected =>
          /\ finalized
          /\ PublicEntries = RecordsOfCalls(nextId - 1)
          /\ FinalizeOutcome = "TypeError"
          /\ \A inp \in FaultInputs : AddEntryOutcome(inp) = "TypeError")
  /\ [][(InvalidOverrideRejected /\ EntriesResolves)
          => probe'.value = RecordsOfCalls(nextId - 1)]_vars

\* Two entries were written, finalize rejected an override naming an entry
\* that does not exist, entries() returned the two records, and a second
\* finalize and a third addEntry threw.
C35_Witness ==
  /\ InvalidOverrideRejected
  /\ Len(entries) = 2
  /\ probe.st = "resolved"
  /\ probe.value = RecordsOfCalls(2)
  /\ Len(probe.value) = 2
  /\ lastCall.finalize = "TypeError"
  /\ lastCall.addEntry = "TypeError"

\* C36: whenever the mutex is free, the writer lock of the output stream is
\* free too: every path through addEntry and finalize releases the writer it
\* acquired before the mutex goes to the next operation.
C36_WriterFreeWithMutex == mutexQ = <<>> => wlock = NoOwner

\* The source of the first entry failed and the output was aborted; the
\* callback of the second addEntry took the writer, `await writer.ready`
\* rejected outside any try block, and the mutex was released with the writer
\* still locked by that callback.
C36_Witness ==
  /\ mutexQ = <<>>
  /\ result[1] = [st |-> "rejected", err |-> SourceError(1)]
  /\ result[2] = [st |-> "rejected", err |-> SourceError(1)]
  /\ pc[2] = "done"
  /\ wlock = 2

\* C37: every addEntry whose promise is rejected after submission has
\* cancelled its source (a source that errored itself has nothing left to
\* cancel), also a call queued or submitted when the output was already
\* errored.
C37_RejectedCancelsSource ==
  \A i \in EntryIds :
    result[i].st = "rejected" => src[i] \in {"cancelled", "errored"}

\* The source of the first entry failed and the output was aborted; the
\* second addEntry, submitted with an open source, was rejected at
\* `await writer.ready` with the error of the abort, and its source is still
\* open.
C37_Witness ==
  /\ result[1] = [st |-> "rejected", err |-> SourceError(1)]
  /\ wstate = "errored"
  /\ pc[2] = "done"
  /\ result[2] = [st |-> "rejected", err |-> SourceError(1)]
  /\ src[2] = "open"

\* getDataDescriptor(entryInfo), by the size fields it writes: 64-bit fields
\* when entryNeedsZip64(entryInfo), 32-bit fields of Number(...) otherwise.
GetDataDescriptor(entryInfo) ==
  IF DataDescriptorZip64(entryInfo)
  THEN [crc32 |-> entryInfo.crc32,
        compressedSize |-> entryInfo.compressedSize,
        uncompressedSize |-> entryInfo.uncompressedSize]
  ELSE [crc32 |-> entryInfo.crc32,
        compressedSize |-> Uint32(ToNumber(entryInfo.compressedSize)),
        uncompressedSize |-> Uint32(ToNumber(entryInfo.uncompressedSize))]

\* A value is smaller than the sentinel of a 32-bit field.
Below32(x) == ~Geq(x, MAX_4_BYTE)

\* The 32-bit fields of the data descriptors written hold the sizes counted.
DescriptorsNotTruncated ==
  \A a \in Positions("dd") :
    LET e == EntryInfoOf(out[a].e)
        d == GetDataDescriptor(e)
    IN  ~DataDescriptorZip64(e) =>
          /\ Below32(e.compressedSize)
          /\ Below32(e.uncompressedSize)
          /\ SameValue(d.compressedSize, e.compressedSize)
          /\ SameValue(d.uncompressedSize, e.uncompressedSize)

\* The 32-bit fields of the central-directory headers written in the
\* standard form hold the values of their records.
HeadersNotTruncated ==
  \A k \in 1..Len(cd) :
    ~cd[k].zip64 =>
      /\ Below32(cd[k].compressedSize)
      /\ Below32(cd[k].uncompressedSize)
      /\ Below32(cd[k].startOffset)
      /\ RealFields(HeaderOfRecord(k), cd[k])

\* The 16-bit and 32-bit fields of an end record written in the standard form
\* hold the count, the size and the offset of the directory.
EndRecordNotTruncated ==
  \A a \in Positions("eocd") :
    Len(EndRecordWritten.layout) = 1 =>
      /\ Len(cd) < MAX_2_BYTE
      /\ Below32(fin.centralDirectorySize)
      /\ Below32(fin.centralDirectoryStart)
      /\ StandardEndRecord(EndRecordWritten, fin.centralDirectoryStart,
                           fin.centralDirectorySize, Len(cd))

\* C38: no value is truncated when written: every value put into a 16-bit
\* or 32-bit field of a data descriptor, a central-directory header or the
\* end record is smaller than the sentinel of the field, for every entry
\* list, also one replaced by an accepted override.
C38_NoTruncation ==
  /\ DescriptorsNotTruncated
  /\ HeadersNotTruncated
  /\ EndRecordNotTruncated

\* finalize resolved with an override whose record of the second entry,
\* which starts beyond 2^32, has its zip64 flag cleared: the header of that
\* record is in the standard form and its 32-bit offset field holds the
\* offset modulo 2^32.
C38_Witness ==
  /\ result[FIN].st = "resolved"
  /\ fin.hasOverride
  /\ \E k \in 1..Len(cd) :
       /\ ~cd[k].zip64
       /\ Geq(cd[k].startOffset, MAX_4_BYTE)
       /\ HeaderOfRecord(k).extraLength = 0
       /\ HeaderOfRecord(k).startOffset = Uint32(cd[k].startOffset)
       /\ ~SameValue(HeaderOfRecord(k).startOffset, cd[k].startOffset)

\* Without an override nothing is truncated.
NoTruncationOfWrittenList == ~OverrideApplied => C38_NoTruncation

(***************************************************************************)
(* The writer with a clock: `new Date()` is read when a header is built.   *)
(* The clock and the DOS time and date of the headers written are kept in  *)
(* `probe`.                                                                *)
(***************************************************************************)
\* The instants the clock goes through: two in the same two-second slot of
\* one day, and one on the next day.
Instants ==
  <<[y |-> 2026, m |-> 11, d |-> 3, h |-> 23, mi |-> 59, s |-> 58],
    [y |-> 2026, m |-> 11, d |-> 3, h |-> 23, mi |-> 59, s |-> 59],
    [y |-> 2026, m |-> 11, d |-> 4, h |-> 0, mi |-> 0, s |-> 0]>>
MaxClock == Len(Instants)

\* The instant of a date given in the options (its time of day is midnight).
InstantOf(date) ==
  [y |-> date.y, m |-> date.m, d |-> date.d, h |-> 0, mi |-> 0, s |-> 0]

\* getDosTime, as stored by setUint16: the shifts have disjoint bits.
GetDosTime(date) == ((date.h * 2048) + (date.mi * 32) + (date.s \div 2)) % (2 ^ 16)

\* The two 16-bit fields a header holds for a date.
DosStamp(date) == [time |-> GetDosTime(date), date |-> GetDosDate(date)]
NoStamp == [time |-> 0, date |-> 0]

\* `options.date || new Date()`, evaluated when the header is built.
HeaderDateAt(date, now) ==
  IF date.def THEN InstantOf(date) ELSE Instants[now]

NoClock ==
  [f |-> "clock", now |-> 1, lfh |-> [i \in EntryIds |-> NoStamp],
   cdfh |-> <<>>]

\* Time passes.
Tick ==
  /\ probe.f = "clock"
  /\ probe.now < MaxClock
  /\ probe' = [probe EXCEPT !.now = @ + 1]
  /\ UNCHANGED <<finalized, entries, offset, out, cd, wstate, werr, wlock,
                 mutexQ, pc, opt, src, loc, fin, result, nextId, lastCall>>

\* `await writer.write(getLocalFileHeader(entryOptionsInternal))`, with the
\* time and date getLocalFileHeader puts in the header.
EntryHeaderAt(i) ==
  /\ pc[i] = "header"
  /\ IF wstate = "errored"
     THEN EntryHeaderFailed(i) /\ UNCHANGED probe
     ELSE /\ Transform("lfh", i, LocalFileHeaderLen(opt[i]))
          /\ pc' = [pc EXCEPT ![i] = "headerReady"]
          /\ probe' = [probe EXCEPT
                         !.lfh[i] = DosStamp(HeaderDateAt(opt[i].date,
                                                          probe.now))]
          /\ UNCHANGED <<finalized, entries, cd, wstate, werr, wlock, mutexQ,
                         opt, src, loc, fin, result, nextId, lastCall>>

\* One turn of the loop of finalize, with the time and date getCDFH puts in
\* the header.
FinalizeCDFHAt ==
  /\ pc[FIN] = "directory"
  /\ fin.next <= Len(entries)
  /\ IF wstate = "errored"
     THEN FinalizeFailed /\ UNCHANGED probe
     ELSE /\ TransformChunk("cdfh", FIN, BigInt(CDFHLen(entries[fin.next])),
                             entries[fin.next].zip64)
          /\ cd' = Append(cd, entries[fin.next])
          /\ fin' = [fin EXCEPT
                       !.next = @ + 1,
                       !.entryUsesZip64 = @ \/ entries[fin.next].zip64,
                       !.uncompressedEntriesSize =
                          BigAdd(@, ToBigInt(entries[fin.next].uncompressedSize)),
                       !.compressedEntriesSize =
                          BigAdd(@, ToBigInt(entries[fin.next].compressedSize))]
          /\ probe' = [probe EXCEPT
                         !.cdfh = Append(@, DosStamp(HeaderDateAt(
                                              entries[fin.next].date,
                                              probe.now)))]
          /\ UNCHANGED <<finalized, entries, wstate, werr, wlock, mutexQ, pc,
                         opt, src, loc, result, nextId, lastCall>>

ClockInputs == {PlainInput, [PlainInput EXCEPT !.date = UndefinedDate]}

EntryStepClock(i) ==
  \/ EntryStart(i)
  \/ EntryReady(i)
  \/ EntryHeaderAt(i)
  \/ EntryHeaderReady(i)
  \/ pc[i] = "pipe" /\ \E chunk \in Chunks, m \in 0..MaxPayload :
                          PipeChunk(i, chunk, m)
  \/ \E m \in 0..1 : PipeEnd(i, m)
  \/ EntryDescriptorStart(i)
  \/ EntryDescriptorReady(i)
  \/ EntryDescriptor(i)

FinalizeStepClock ==
  \/ pc[FIN] = "queued" /\ HoldsMutex(FIN) /\ FinalizeStart(<<>>)
  \/ FinalizeReady
  \/ FinalizeCDFHAt
  \/ FinalizeEOCD
  \/ FinalizeClose

InitClock == WriterInit /\ probe = NoClock

NextClock ==
  \/ \E inp \in ClockInputs : AddEntry(inp)
  \/ Finalize(FALSE)
  \/ \E i \in EntryIds : EntryStepClock(i) \/ SourceEnd(i)
  \/ FinalizeStepClock
  \/ Tick

SpecClock == InitClock /\ [][NextClock]_vars

\* C39: for an entry submitted without a date (and no override), the DOS
\* time and date of its central-directory header equal those of its local
\* file header, however much time passes between the two.
C39_SameDosTime ==
  \A k \in 1..Len(probe.cdfh) :
    ~cd[k].date.def => probe.cdfh[k] = probe.lfh[cd[k].id]

\* An entry without a date was written at 23:59:58 and the archive was
\* finalized after midnight: its local header holds the time and date of
\* the first instant, its central-directory header those of the last.
C39_Witness ==
  /\ wstate = "closed"
  /\ Len(cd) = 1
  /\ ~cd[1].date.def
  /\ probe.lfh[1] = DosStamp(Instants[1])
  /\ probe.cdfh[1] = DosStamp(Instants[3])
  /\ probe.cdfh[1].date # probe.lfh[1].date
  /\ probe.cdfh[1].time # probe.lfh[1].time

\* With a date in the options the two headers agree, and so they do when no
\* more than the rest of a two-second slot passes between them.
SameDosTimeOfGivenDates ==
  \A k \in 1..Len(probe.cdfh) :
    /\ cd[k].date.def => probe.cdfh[k] = probe.lfh[cd[k].id]
    /\ probe.now < MaxClock => probe.cdfh[k] = probe.lfh[cd[k].id]

====
